---------------------------- MODULE Spec2Model ----------------------------
(***************************************************************************)
(* A model of the tough-cookie engine (src/unnamed/part_001, the library's *)
(* cookie.js): the Set-Cookie parser, the canonicalisation and matching    *)
(* primitives, the Cookie record and the CookieJar set/get state machine.  *)
(*                                                                         *)
(* Representation.                                                         *)
(*  - A JavaScript string is a sequence of one-character strings, so that  *)
(*    indexOf, substr, trim and toLowerCase are computed as the code does. *)
(*    The alphabet is ASCII, so the IDN branch of canonicalDomain (taken   *)
(*    only for a code point above U+007F) is never entered.                *)
(*  - null/undefined is Null.  A Date is <<"D", t>> with t in seconds (the *)
(*    code's getTime() / 1000, so the code's maxAge * 1000 ms is maxAge    *)
(*    here and MAX_TIME, 2147483647000 ms, is 2147483647).  A number is    *)
(*    <<"N", n>>; Infinity and -Infinity are PosInf and NegInf.            *)
(*  - A tri-state flag (hostOnly, pathIsDefault, options.http, ...) is     *)
(*    Null, True3 or False3.                                               *)
(*  - Modules of the repository that are imported by cookie.js but whose   *)
(*    source is not at hand (memstore, pathMatch, permuteDomain,           *)
(*    pubsuffix, node-shim/net) are modelled from their specification.     *)
(***************************************************************************)
EXTENDS Integers, Sequences, FiniteSets, TLC

VARIABLES
  synchronous,          \* store.synchronous of the jar's store
  rejectPublicSuffixes, \* CookieJar.prototype.rejectPublicSuffixes of the jar
  enableLooseMode,      \* CookieJar.prototype.enableLooseMode of the jar
  idx,                  \* the jar's store: the set of stored cookies
  cookiesCreated,       \* Cookie.cookiesCreated, the process-wide counter
  clock,                \* the wall clock read by new Date() / Date.now()
  last,                 \* the last jar call: its arguments and what it delivered
  inFlight              \* the calls made on an asynchronous store, in call order:
                        \* what each waits for and what its callback received

vars ==
  <<synchronous, rejectPublicSuffixes, enableLooseMode, idx, cookiesCreated, clock, last, inFlight>>

---------------------------------------------------------------------------
(* Values *)

Null == <<"null">>
True3 == <<"true">>
False3 == <<"false">>
PosInf == <<"Infinity">>
NegInf == <<"-Infinity">>

Date(t) == <<"D", t>>
getTime(d) == d[2]
Num(n) == <<"N", n>>
\* an array
List(items) == <<"L", items>>
IsNum(x) == Len(x) = 2 /\ x[1] = "N"

\* JavaScript truthiness of a string-or-null, of a tri-state flag
Truthy(s) == s # Null /\ s # <<>>
Truthy3(b) == b = True3

\* a <= b over numbers extended with the two infinities
NumLeq(a, b) ==
  IF a = NegInf \/ b = PosInf THEN TRUE
  ELSE IF a = PosInf \/ b = NegInf THEN FALSE
  ELSE a[2] <= b[2]

\* a + b, at most one of them infinite
NumAdd(a, b) ==
  IF a = PosInf \/ b = PosInf THEN PosInf
  ELSE IF a = NegInf \/ b = NegInf THEN NegInf
  ELSE Num(a[2] + b[2])

---------------------------------------------------------------------------
(* Strings: the String.prototype methods the code uses, 0-based as in JS *)

Min(a, b) == IF a <= b THEN a ELSE b
Max(a, b) == IF a >= b THEN a ELSE b

\* s.slice(from, to) for 0 <= from
Slice(s, from, to) == SubSeq(s, from + 1, Min(to, Len(s)))

\* s.substr(from, n)
Substr(s, from, n) == SubSeq(s, from + 1, Min(from + n, Len(s)))

\* s.slice(from)
SliceFrom(s, from) == SubSeq(s, from + 1, Len(s))

\* s.indexOf(sub): the FIRST place sub occurs, or -1
IndexOf(s, sub) ==
  LET hits == { i \in 0..(Len(s) - Len(sub)) : SubSeq(s, i + 1, i + Len(sub)) = sub }
  IN  IF hits = {} THEN -1 ELSE CHOOSE i \in hits : \A j \in hits : i <= j

\* s.lastIndexOf(sub): the LAST place sub occurs, or -1
LastIndexOf(s, sub) ==
  LET hits == { i \in 0..(Len(s) - Len(sub)) : SubSeq(s, i + 1, i + Len(sub)) = sub }
  IN  IF hits = {} THEN -1 ELSE CHOOSE i \in hits : \A j \in hits : i >= j

WhiteSpace == {" ", "\t", "\n", "\r"}

\* s.trim()
Trim(s) ==
  LET keep == { i \in 1..Len(s) : s[i] \notin WhiteSpace }
  IN  IF keep = {} THEN <<>>
      ELSE SubSeq(s, CHOOSE i \in keep : \A j \in keep : i <= j,
                     CHOOSE i \in keep : \A j \in keep : i >= j)

UPPER == <<"A","B","C","D","E","F","G","H","I","J","K","L","M",
           "N","O","P","Q","R","S","T","U","V","W","X","Y","Z">>
LOWER == <<"a","b","c","d","e","f","g","h","i","j","k","l","m",
           "n","o","p","q","r","s","t","u","v","w","x","y","z">>

ToLowerChar(c) ==
  IF \E i \in 1..26 : UPPER[i] = c THEN LOWER[CHOOSE i \in 1..26 : UPPER[i] = c] ELSE c

\* s.toLowerCase()
ToLowerCase(s) == [i \in 1..Len(s) |-> ToLowerChar(s[i])]

Digits == {"0","1","2","3","4","5","6","7","8","9"}
DigitVal(c) == CHOOSE n \in 0..9 : <<"0","1","2","3","4","5","6","7","8","9">>[n + 1] = c

\* parseInt(s, 10) of a string of digits
RECURSIVE ParseDigits(_)
ParseDigits(s) ==
  IF s = <<>> THEN 0 ELSE 10 * ParseDigits(SubSeq(s, 1, Len(s) - 1)) + DigitVal(s[Len(s)])

\* s.split(sep) for a one-character separator
RECURSIVE Split(_, _)
Split(s, sep) ==
  LET i == IndexOf(s, <<sep>>)
  IN  IF i = -1 THEN <<s>> ELSE <<Slice(s, 0, i)>> \o Split(SliceFrom(s, i + 1), sep)

\* parts.join(sep)
RECURSIVE Join(_, _)
Join(parts, sep) ==
  IF parts = <<>> THEN <<>>
  ELSE IF Len(parts) = 1 THEN parts[1]
  ELSE parts[1] \o sep \o Join(Tail(parts), sep)

---------------------------------------------------------------------------
(* Collaborators of cookie.js whose source is not at hand *)

\* pubsuffix: the domains that are public suffixes besides every single label
PublicSuffixList == { <<"c">> }

\* labels.join('.')
JoinLabels(labels) == Join(labels, <<".">>)

\* pubsuffix.getPublicSuffix: the registrable domain of `domain` (its public
\* suffix and one more label), or Null iff `domain` is itself a public suffix
getPublicSuffix(domain) ==
  LET labels == Split(domain, ".")
      n == Len(labels)
      \* the number of labels of domain's public suffix: the longest listed one,
      \* else the last label
      listed == { k \in 1..n : JoinLabels(SubSeq(labels, n - k + 1, n)) \in PublicSuffixList }
      k == IF listed = {} THEN 1 ELSE CHOOSE x \in listed : \A y \in listed : x >= y
  IN  IF domain = <<>> \/ n <= k THEN Null
      ELSE JoinLabels(SubSeq(labels, n - k, n))

\* node-shim/net isIP: an IPv4 literal, four numbers 0..255 (the model's hosts
\* hold no ':', so no IPv6 literal arises)
isIP(str) ==
  LET parts == Split(str, ".")
  IN  /\ Len(parts) = 4
      /\ \A i \in 1..4 :
           /\ Len(parts[i]) \in 1..3
           /\ \A j \in 1..Len(parts[i]) : parts[i][j] \in Digits
           /\ ParseDigits(parts[i]) <= 255

\* pathMatch(reqPath, cookiePath), RFC 6265 S5.1.4
pathMatch(reqPath, cookiePath) ==
  \/ reqPath = cookiePath
  \/ /\ Len(cookiePath) < Len(reqPath)
     /\ SubSeq(reqPath, 1, Len(cookiePath)) = cookiePath
     /\ \/ (cookiePath # <<>> /\ cookiePath[Len(cookiePath)] = "/")
        \/ reqPath[Len(cookiePath) + 1] = "/"

\* permuteDomain(domain): domain and every parent of it down to its registrable
\* domain, the public suffix itself left out
permuteDomainDownTo(domain, pubSuf) ==
  LET labels == Split(domain, ".")
      n == Len(labels)
  IN  IF pubSuf = Null THEN <<domain>>
      ELSE [i \in 1..(n - Len(Split(pubSuf, ".")) + 1) |-> JoinLabels(SubSeq(labels, i, n))]

permuteDomain(domain) == permuteDomainDownTo(domain, getPublicSuffix(domain))

---------------------------------------------------------------------------
(* Canonicalisation and matching *)

\* str.replace(/^\./, '')
StripLeadingDot(str) == IF str # <<>> /\ str[1] = "." THEN Tail(str) ELSE str

canonicalDomain(str) ==
  IF str = Null THEN Null
  ELSE ToLowerCase(StripLeadingDot(Trim(str)))

\* the steps of domainMatch after the optional canonicalisation
domainMatchCanon(str, domStr) ==
  LET idx0 == IndexOf(str, domStr)
  IN  IF str = domStr THEN True3
      ELSE IF isIP(str) THEN False3
      ELSE IF idx0 <= 0 THEN False3
      ELSE IF Len(str) # Len(domStr) + idx0 THEN False3
      ELSE IF Substr(str, idx0 - 1, 1) # <<".">> THEN False3
      ELSE True3

\* defaultPath keeping the right-most slash
defaultPathWithSlash(path) ==
  IF ~Truthy(path) \/ Substr(path, 0, 1) # <<"/">> THEN <<"/">>
  ELSE Slice(path, 0, LastIndexOf(path, <<"/">>) + 1)

\* domainMatch(str, domStr, canonicalize): True3, False3, or Null for a null argument
domainMatch(str, domStr, canonicalize) ==
  IF str = Null \/ domStr = Null THEN Null
  ELSE IF canonicalize # False3
       THEN domainMatchCanon(canonicalDomain(str), canonicalDomain(domStr))
       ELSE domainMatchCanon(str, domStr)

defaultPath(path) ==
  IF ~Truthy(path) \/ Substr(path, 0, 1) # <<"/">> THEN <<"/">>
  ELSE IF path = <<"/">> THEN path
  ELSE LET rightSlash == LastIndexOf(path, <<"/">>)
       IN  IF rightSlash = 0 THEN <<"/">> ELSE Slice(path, 0, rightSlash)

\* the loop of permutePath: path and its prefixes, longest first, the root left out
RECURSIVE permutePathLoop(_)
permutePathLoop(path) ==
  LET lindex == LastIndexOf(path, <<"/">>)
  IN  IF Len(path) > 1 /\ lindex # 0
      THEN <<path>> \o permutePathLoop(Substr(path, 0, lindex))
      ELSE <<path>>

permutePath(path) ==
  IF path = <<"/">> THEN << <<"/">> >>
  ELSE LET p == IF LastIndexOf(path, <<"/">>) = Len(path) - 1
                THEN Substr(path, 0, Len(path) - 1) ELSE path
       IN  permutePathLoop(p) \o << <<"/">> >>

---------------------------------------------------------------------------
(* The cookie-date parser, RFC 6265 S5.1.1 *)

\* DATE_DELIM = /[\x09\x20-\x2F\x3B-\x40\x5B-\x60\x7B-\x7E]/ (\x60, which
\* no TLA+ string can hold, is not in the model's alphabet)
DATE_DELIM ==
  { "\t", " ", "!", "\"", "#", "$", "%", "&", "'", "(", ")", "*", "+", ",", "-", ".", "/",
    ";", "<", "=", ">", "?", "@", "[", "\\", "]", "^", "_", "{", "|", "}", "~" }

\* str.split(DATE_DELIM)
RECURSIVE SplitDelim(_)
SplitDelim(s) ==
  LET at == { i \in 1..Len(s) : s[i] \in DATE_DELIM }
      i == CHOOSE x \in at : \A y \in at : x <= y
  IN  IF at = {} THEN <<s>>
      ELSE <<SubSeq(s, 1, i - 1)>> \o SplitDelim(SubSeq(s, i + 1, Len(s)))

\* the maximal runs of digits and of non-digits of a token, in order
RECURSIVE Runs(_)
Runs(s) ==
  IF s = <<>> THEN <<>>
  ELSE LET other == { i \in 1..Len(s) : (s[i] \in Digits) # (s[1] \in Digits) }
           n == IF other = {} THEN Len(s)
                ELSE (CHOOSE x \in other : \A y \in other : x <= y) - 1
       IN  <<SubSeq(s, 1, n)>> \o Runs(SubSeq(s, n + 1, Len(s)))

IsShortNumber(r) == r # <<>> /\ r[1] \in Digits /\ Len(r) \in 1..2

\* TIME = /^(\d{1,2})[^\d]*:(\d{1,2})[^\d]*:(\d{1,2})[^\d]*$/ : three runs of one
\* or two digits, the text between them ending in ':', no digit after the third
MatchTIME(token) ==
  LET r == Runs(token)
  IN  /\ Len(r) \in 5..6
      /\ IsShortNumber(r[1]) /\ IsShortNumber(r[3]) /\ IsShortNumber(r[5])
      /\ r[2][Len(r[2])] = ":" /\ r[4][Len(r[4])] = ":"

\* DAY_OF_MONTH = /^(\d{1,2})[^\d]*$/
MatchDAY_OF_MONTH(token) ==
  LET r == Runs(token)
  IN  Len(r) \in 1..2 /\ IsShortNumber(r[1])

MONTHS == << <<"j","a","n">>, <<"f","e","b">>, <<"m","a","r">>, <<"a","p","r">>,
             <<"m","a","y">>, <<"j","u","n">>, <<"j","u","l">>, <<"a","u","g">>,
             <<"s","e","p">>, <<"o","c","t">>, <<"n","o","v">>, <<"d","e","c">> >>

\* MONTH = /^(Jan|Feb|...|Dec)/i and MONTH_TO_NUM: the month's number 0..11, or -1
MatchMONTH(token) ==
  LET head == ToLowerCase(Substr(token, 0, 3))
  IN  IF \E m \in 1..12 : MONTHS[m] = head
      THEN (CHOOSE m \in 1..12 : MONTHS[m] = head) - 1
      ELSE -1

\* YEAR = /^(\d{2}|\d{4})$/
MatchYEAR(token) ==
  Len(token) \in {2, 4} /\ \A i \in 1..Len(token) : token[i] \in Digits

NoDateFields ==
  [hour |-> Null, minutes |-> Null, seconds |-> Null, day |-> Null, month |-> Null,
   year |-> Null, failed |-> FALSE]

\* one turn of the loop with any year taken
parseDateTokenAnyYear(st, rawToken) ==
  LET token == Trim(rawToken)
      r == Runs(token)
      y0 == ParseDigits(token)
      y == IF y0 >= 70 /\ y0 <= 99 THEN y0 + 1900
           ELSE IF y0 >= 0 /\ y0 <= 69 THEN y0 + 2000 ELSE y0
  IN  IF st.failed \/ Len(token) = 0 THEN st
      ELSE IF st.seconds = Null /\ MatchTIME(token)
      THEN LET h == ParseDigits(r[1])
               mi == ParseDigits(r[3])
               sec == ParseDigits(r[5])
           IN  [st EXCEPT !.hour = Num(h), !.minutes = Num(mi), !.seconds = Num(sec),
                          !.failed = h > 23 \/ mi > 59 \/ sec > 59]
      ELSE IF st.day = Null /\ MatchDAY_OF_MONTH(token)
      THEN LET d == ParseDigits(r[1])
           IN  [st EXCEPT !.day = Num(d), !.failed = d < 1 \/ d > 31]
      ELSE IF st.month = Null /\ MatchMONTH(token) # -1
      THEN [st EXCEPT !.month = Num(MatchMONTH(token))]
      ELSE IF st.year = Null /\ MatchYEAR(token)
      THEN [st EXCEPT !.year = Num(y)]
      ELSE st

\* one turn of parseDate's loop over the tokens
parseDateToken(st, rawToken) ==
  LET token == Trim(rawToken)
      r == Runs(token)
      y0 == ParseDigits(token)
      y == IF y0 >= 70 /\ y0 <= 99 THEN y0 + 1900
           ELSE IF y0 >= 0 /\ y0 <= 69 THEN y0 + 2000 ELSE y0
  IN  IF st.failed \/ Len(token) = 0 THEN st
      ELSE IF st.seconds = Null /\ MatchTIME(token)
      THEN LET h == ParseDigits(r[1])
               mi == ParseDigits(r[3])
               sec == ParseDigits(r[5])
           IN  [st EXCEPT !.hour = Num(h), !.minutes = Num(mi), !.seconds = Num(sec),
                          !.failed = h > 23 \/ mi > 59 \/ sec > 59]
      ELSE IF st.day = Null /\ MatchDAY_OF_MONTH(token)
      THEN LET d == ParseDigits(r[1])
           IN  [st EXCEPT !.day = Num(d), !.failed = d < 1 \/ d > 31]
      ELSE IF st.month = Null /\ MatchMONTH(token) # -1
      THEN [st EXCEPT !.month = Num(MatchMONTH(token))]
      ELSE IF st.year = Null /\ MatchYEAR(token)
      THEN [st EXCEPT !.year = Num(y), !.failed = y < 1601]
      ELSE st

RECURSIVE parseDateLoop(_, _)
parseDateLoop(st, tokens) ==
  IF tokens = <<>> THEN st
  ELSE parseDateLoop(parseDateToken(st, Head(tokens)), Tail(tokens))

\* the fields parseDate has found in str when it is done; failed where it
\* returns undefined
parseDateFound(st) ==
  IF st.failed THEN st
  ELSE IF st.seconds = Null \/ st.day = Null \/ st.month = Null \/ st.year = Null
  THEN [st EXCEPT !.failed = TRUE]
  ELSE st

parseDateFields(str) ==
  IF ~Truthy(str) THEN [NoDateFields EXCEPT !.failed = TRUE]
  ELSE parseDateFound(parseDateLoop(NoDateFields, SplitDelim(str)))

\* the days from 1970-01-01 to the first day of month (0..11) of year
DaysFromCivil(year, month) ==
  LET m == month + 1
      y == IF m <= 2 THEN year - 1 ELSE year
      era == y \div 400
      yoe == y - era * 400
      doy == (153 * (IF m > 2 THEN m - 3 ELSE m + 9) + 2) \div 5
      doe == yoe * 365 + yoe \div 4 - yoe \div 100 + doy
  IN  era * 146097 + doe - 719468

\* Date.UTC(year, month, day, hour, minutes, seconds), in seconds
DateUTC(year, month, day, hour, minutes, seconds) ==
  (DaysFromCivil(year, month) + day - 1) * 86400 + hour * 3600 + minutes * 60 + seconds

\* new Date(Date.UTC(year, month, day, hour, minute, second)) of the fields found
parseDateResult(f) ==
  IF f.failed THEN Null
  ELSE Date(DateUTC(f.year[2], f.month[2], f.day[2], f.hour[2], f.minutes[2], f.seconds[2]))

\* parseDate(str): a Date, or Null
parseDate(str) == parseDateResult(parseDateFields(str))

---------------------------------------------------------------------------
(* The Cookie record *)

\* Cookie.prototype: the default of every field
CookiePrototype ==
  [key |-> <<>>, value |-> <<>>, expires |-> PosInf, maxAge |-> Null, domain |-> Null,
   path |-> Null, secure |-> FALSE, httpOnly |-> FALSE, extensions |-> Null,
   hostOnly |-> Null, pathIsDefault |-> Null, creation |-> Null, lastAccessed |-> Null,
   creationIndex |-> 0]

\* the fields new Cookie(options) copies: every own property of the prototype
\* but creationIndex, which the constructor then defines itself
CookieFields == DOMAIN CookiePrototype \ {"creationIndex"}

\* new Cookie(options), constructed at time `now` as the created-th cookie of
\* the process
Cookie(options, now, created) ==
  LET c == [f \in DOMAIN CookiePrototype |->
              IF f \in CookieFields /\ f \in DOMAIN options
              THEN options[f] ELSE CookiePrototype[f]]
  IN  [c EXCEPT !.creation = IF c.creation # Null THEN c.creation ELSE now,
                !.creationIndex = created]

\* Cookie.prototype.setMaxAge
setMaxAge(cookie, age) == [cookie EXCEPT !.maxAge = age]

\* Cookie.prototype.cdomain / canonicalizedDomain
cdomain(cookie) == IF cookie.domain = Null THEN Null ELSE canonicalDomain(cookie.domain)

\* this.maxAge <= 0, for a maxAge that is not null
MaxAgeNotPositive(maxAge) == NumLeq(maxAge, Num(0))

\* Cookie.prototype.expiryTime(now); `current` is what new Date() would give
expiryTime(cookie, now, current) ==
  IF cookie.maxAge # Null
  THEN LET relativeTo == IF now # Null THEN now
                         ELSE IF cookie.creation # Null THEN cookie.creation ELSE current
           age == IF MaxAgeNotPositive(cookie.maxAge) THEN NegInf ELSE cookie.maxAge
       IN  NumAdd(Num(getTime(relativeTo)), age)
  ELSE IF cookie.expires = PosInf THEN PosInf
  ELSE Num(getTime(cookie.expires))

\* Cookie.prototype.cookieString
cookieString(cookie) ==
  IF cookie.key = <<>> THEN cookie.value ELSE cookie.key \o <<"=">> \o cookie.value

\* String(n) of an integer
RECURSIVE DigitsOf(_)
DigitsOf(n) ==
  IF n < 10 THEN <<(<<"0","1","2","3","4","5","6","7","8","9">>)[n + 1]>>
  ELSE DigitsOf(n \div 10) \o DigitsOf(n % 10)

\* String(x) of a number
NumberToString(x) ==
  IF x = PosInf THEN <<"I","n","f","i","n","i","t","y">>
  ELSE IF x = NegInf THEN <<"-","I","n","f","i","n","i","t","y">>
  ELSE IF x[2] < 0 THEN <<"-">> \o DigitsOf(0 - x[2])
  ELSE DigitsOf(x[2])

NUM_TO_MONTH ==
  << <<"J","a","n">>, <<"F","e","b">>, <<"M","a","r">>, <<"A","p","r">>, <<"M","a","y">>,
     <<"J","u","n">>, <<"J","u","l">>, <<"A","u","g">>, <<"S","e","p">>, <<"O","c","t">>,
     <<"N","o","v">>, <<"D","e","c">> >>
NUM_TO_DAY ==
  << <<"S","u","n">>, <<"M","o","n">>, <<"T","u","e">>, <<"W","e","d">>, <<"T","h","u">>,
     <<"F","r","i">>, <<"S","a","t">> >>

\* getUTCFullYear, getUTCMonth (0..11) and getUTCDate of the day `days` days
\* after 1970-01-01
CivilFromDays(days) ==
  LET z == days + 719468
      era == z \div 146097
      doe == z - era * 146097
      yoe == (doe - doe \div 1460 + doe \div 36524 - doe \div 146096) \div 365
      doy == doe - (365 * yoe + yoe \div 4 - yoe \div 100)
      mp == (5 * doy + 2) \div 153
      m == IF mp < 10 THEN mp + 3 ELSE mp - 9
  IN  [year |-> yoe + era * 400 + (IF m <= 2 THEN 1 ELSE 0), month |-> m - 1,
       date |-> doy - (153 * mp + 2) \div 5 + 1]

\* n >= 10 ? n : `0${n}`
TwoDigits(n) == IF n >= 10 THEN DigitsOf(n) ELSE <<"0">> \o DigitsOf(n)

\* the date in the template of formatDate, whose literal breaks the line
\* between the year and the hours
formatDateOf(civil, day, secs) ==
  NUM_TO_DAY[day + 1] \o <<",", " ">> \o TwoDigits(civil.date) \o <<" ">>
    \o NUM_TO_MONTH[civil.month + 1] \o <<" ">> \o DigitsOf(civil.year)
    \o <<"\n", " ", " ", " ", " ">>
    \o TwoDigits(secs \div 3600) \o <<":">> \o TwoDigits((secs % 3600) \div 60) \o <<":">>
    \o TwoDigits(secs % 60) \o <<" ", "G", "M", "T">>

formatDate(date) ==
  formatDateOf(CivilFromDays(getTime(date) \div 86400), (getTime(date) \div 86400 + 4) % 7,
               getTime(date) % 86400)

IsDate(x) == Len(x) = 2 /\ x[1] = "D"

RECURSIVE JoinExtensions(_)
JoinExtensions(exts) ==
  IF exts = <<>> THEN <<>> ELSE <<";", " ">> \o Head(exts) \o JoinExtensions(Tail(exts))

\* Cookie.prototype.toString: the Set-Cookie header format
toString(cookie) ==
  cookieString(cookie)
    \o (IF cookie.expires # PosInf
        THEN <<";"," ","E","x","p","i","r","e","s","=">>
             \o (IF IsDate(cookie.expires) THEN formatDate(cookie.expires) ELSE cookie.expires)
        ELSE <<>>)
    \o (IF cookie.maxAge # Null /\ cookie.maxAge # PosInf
        THEN <<";"," ","M","a","x","-","A","g","e","=">> \o NumberToString(cookie.maxAge)
        ELSE <<>>)
    \o (IF Truthy(cookie.domain) /\ ~Truthy3(cookie.hostOnly)
        THEN <<";"," ","D","o","m","a","i","n","=">> \o cookie.domain ELSE <<>>)
    \o (IF Truthy(cookie.path) THEN <<";"," ","P","a","t","h","=">> \o cookie.path ELSE <<>>)
    \o (IF cookie.secure THEN <<";"," ","S","e","c","u","r","e">> ELSE <<>>)
    \o (IF cookie.httpOnly THEN <<";"," ","H","t","t","p","O","n","l","y">> ELSE <<>>)
    \o (IF cookie.extensions # Null THEN JoinExtensions(cookie.extensions[2]) ELSE <<>>)

---------------------------------------------------------------------------
(* The JSON form of a cookie *)

\* n as four digits
FourDigits(n) ==
  (IF n < 1000 THEN <<"0">> ELSE <<>>) \o (IF n < 100 THEN <<"0">> ELSE <<>>) \o TwoDigits(n)

\* Date.prototype.toISOString of the fields of a date: YYYY-MM-DDTHH:mm:ss.sssZ
toISOStringOf(civil, secs) ==
  FourDigits(civil.year) \o <<"-">> \o TwoDigits(civil.month + 1) \o <<"-">>
    \o TwoDigits(civil.date) \o <<"T">> \o TwoDigits(secs \div 3600) \o <<":">>
    \o TwoDigits((secs % 3600) \div 60) \o <<":">> \o TwoDigits(secs % 60)
    \o <<".", "0", "0", "0", "Z">>

toISOString(date) ==
  toISOStringOf(CivilFromDays(getTime(date) \div 86400), getTime(date) % 86400)

\* new Date(str) of a string in that format
DateOfString(str) ==
  Date(DateUTC(ParseDigits(SubSeq(str, 1, 4)), ParseDigits(SubSeq(str, 6, 7)) - 1,
               ParseDigits(SubSeq(str, 9, 10)), ParseDigits(SubSeq(str, 12, 13)),
               ParseDigits(SubSeq(str, 15, 16)), ParseDigits(SubSeq(str, 18, 19))))

\* Cookie.serializableProperties: the prototype's enumerable properties that
\* are no functions
serializableProperties == CookieFields

\* the properties that hold a date
DateProperties == {"expires", "creation", "lastAccessed"}

\* what toJSON writes for a property that is not at its default
toJSONValue(prop, value) ==
  IF prop \in DateProperties
  THEN IF value = Null THEN Null
       ELSE IF value = PosInf THEN PosInf
       ELSE toISOString(value)
  ELSE value

\* toJSON with the creation time left out
toJSONWithoutCreation(cookie) ==
  [prop \in { q \in serializableProperties \ {"creation"} : cookie[q] # CookiePrototype[q] } |->
     toJSONValue(prop, cookie[prop])]

\* Cookie.prototype.toJSON: the properties that are not at their default
toJSON(cookie) ==
  [prop \in { q \in serializableProperties : cookie[q] # CookiePrototype[q] } |->
     toJSONValue(prop, cookie[prop])]

\* what fromJSON reads from a property that is present and not the default
fromJSONValue(prop, value) ==
  IF prop \in DateProperties
  THEN IF value = Null THEN Null
       ELSE IF value = PosInf THEN PosInf
       ELSE DateOfString(value)
  ELSE value

\* fromJSON making a cookie that takes no number from the counter
fromJSONUnnumbered(obj, now, created) ==
  LET cookie == Cookie(<<>>, now, 0)
  IN  [prop \in DOMAIN cookie |->
         IF prop \in serializableProperties /\ prop \in DOMAIN obj
            /\ obj[prop] # CookiePrototype[prop]
         THEN fromJSONValue(prop, obj[prop])
         ELSE cookie[prop]]

\* fromJSON(obj) of an object, at time `now`, as the created-th cookie
fromJSON(obj, now, created) ==
  LET cookie == Cookie(<<>>, now, created)
  IN  [prop \in DOMAIN cookie |->
         IF prop \in serializableProperties /\ prop \in DOMAIN obj
            /\ obj[prop] # CookiePrototype[prop]
         THEN fromJSONValue(prop, obj[prop])
         ELSE cookie[prop]]

---------------------------------------------------------------------------
(* Cookie.prototype: validate, TTL, expiryDate, clone *)

\* CONTROL_CHARS = /[\x00-\x1F]/, over the model's alphabet
CONTROL_CHARS == {"\t", "\n", "\r"}

\* COOKIE_OCTET: \x21, \x23-\x2B, \x2D-\x3A, \x3C-\x5B, \x5D-\x7E, that is
\* every visible character but the double quote, the comma, the semicolon and
\* the backslash
COOKIE_OCTET(ch) == ch \notin CONTROL_CHARS \cup {" ", "\"", ",", ";", "\\"}

\* COOKIE_OCTETS.test(str): ^COOKIE_OCTET+$
COOKIE_OCTETS(str) == str # <<>> /\ \A i \in 1..Len(str) : COOKIE_OCTET(str[i])

\* PATH_VALUE.test(str): /[\x20-\x3A\x3C-\x7E]+/, a pattern without anchors
PATH_VALUE(str) == \E i \in 1..Len(str) : str[i] \notin CONTROL_CHARS \cup {";"}

\* Cookie.prototype.validate
validate(cookie) ==
  IF ~COOKIE_OCTETS(cookie.value) THEN FALSE
  ELSE IF cookie.expires # PosInf /\ ~IsDate(cookie.expires)
          /\ (cookie.expires = Null \/ parseDate(cookie.expires) = Null)
  THEN FALSE
  ELSE IF cookie.maxAge # Null /\ MaxAgeNotPositive(cookie.maxAge) THEN FALSE
  ELSE IF cookie.path # Null /\ ~PATH_VALUE(cookie.path) THEN FALSE
  ELSE IF Truthy(cdomain(cookie))
  THEN IF cdomain(cookie)[Len(cdomain(cookie))] = "." THEN FALSE
       ELSE getPublicSuffix(cdomain(cookie)) # Null
  ELSE TRUE

\* the time an argument `now` stands for, `current` when it is not given
TimeOf(now, current) == IF now # Null THEN getTime(now) ELSE getTime(current)

\* TTL that reads expires only
TTLOfExpires(cookie, now, current) ==
  IF cookie.expires # PosInf /\ IsDate(cookie.expires)
  THEN Num(getTime(cookie.expires) - TimeOf(now, current))
  ELSE PosInf

\* Cookie.prototype.TTL(now), in seconds; `current` is what Date.now() gives
TTL(cookie, now, current) ==
  IF cookie.maxAge # Null
  THEN IF MaxAgeNotPositive(cookie.maxAge) THEN Num(0) ELSE cookie.maxAge
  ELSE IF cookie.expires # PosInf
  THEN LET expires == IF IsDate(cookie.expires) THEN cookie.expires
                      ELSE IF cookie.expires = Null THEN Null
                      ELSE parseDate(cookie.expires)
       IN  IF expires = Null THEN PosInf
           ELSE Num(getTime(expires) - TimeOf(now, current))
  ELSE PosInf

MAX_TIME == 2147483647
MIN_TIME == 0

\* Cookie.prototype.expiryDate(now)
expiryDate(cookie, now, current) ==
  LET millisec == expiryTime(cookie, now, current)
  IN  IF millisec = PosInf THEN Date(MAX_TIME)
      ELSE IF millisec = NegInf THEN Date(MIN_TIME)
      ELSE Date(millisec[2])

\* Cookie.prototype.clone, at time `now`, as the created-th cookie
cookieClone(cookie, now, created) == fromJSON(toJSON(cookie), now, created)

---------------------------------------------------------------------------
(* The Set-Cookie parser *)

\* what [^\n\r\0]* takes from the front of s
TakeLine(s) ==
  LET at == { i \in 1..Len(s) : s[i] \in {"\n", "\r"} }
  IN  IF at = {} THEN s ELSE SubSeq(s, 1, (CHOOSE x \in at : \A y \in at : x <= y) - 1)

\* s after the \s* at its front
SkipSpace(s) ==
  LET keep == { i \in 1..Len(s) : s[i] \notin WhiteSpace }
  IN  IF keep = {} THEN <<>> ELSE SubSeq(s, CHOOSE x \in keep : \A y \in keep : x <= y, Len(s))

\* COOKIE_PAIR = /^(([^=;]+))\s*=\s*([^\n\r\0]*)/ on a head that holds no ';':
\* the groups 1, 2 and 3, or no match
MatchCOOKIE_PAIR(head) ==
  LET eq == IndexOf(head, <<"=">>)
  IN  IF eq <= 0 THEN [matched |-> FALSE, g1 |-> Null, g2 |-> Null, g3 |-> Null]
      ELSE [matched |-> TRUE, g1 |-> Slice(head, 0, eq), g2 |-> Slice(head, 0, eq),
            g3 |-> TakeLine(SkipSpace(SliceFrom(head, eq + 1)))]

\* LOOSE_COOKIE_PAIR = /^((?:=)?([^=;]*)\s*=\s*)?([^\n\r\0]*)/ on such a head
MatchLOOSE_COOKIE_PAIR(head) ==
  LET eq == IndexOf(head, <<"=">>)
      rest == SliceFrom(head, 1)
      eq2 == IndexOf(rest, <<"=">>)
  IN  IF eq = -1
      THEN [matched |-> TRUE, g1 |-> Null, g2 |-> Null, g3 |-> TakeLine(head)]
      ELSE IF eq = 0 /\ eq2 # -1
      THEN \* the leading '=' is skipped and the name runs to the next '='
           [matched |-> TRUE, g1 |-> Slice(head, 0, eq2 + 2), g2 |-> Slice(rest, 0, eq2),
            g3 |-> TakeLine(SkipSpace(SliceFrom(rest, eq2 + 1)))]
      ELSE [matched |-> TRUE, g1 |-> Slice(head, 0, eq + 1), g2 |-> Slice(head, 0, eq),
            g3 |-> TakeLine(SkipSpace(SliceFrom(head, eq + 1)))]

\* a control character in s
HasControlChar(s) == \E i \in 1..Len(s) : s[i] \in CONTROL_CHARS

\* /^-?[0-9]+$/
IsInteger(s) ==
  LET d == IF s # <<>> /\ s[1] = "-" THEN Tail(s) ELSE s
  IN  d # <<>> /\ \A i \in 1..Len(d) : d[i] \in Digits

\* parseInt(s, 10) of such a string
ParseInt(s) == IF s[1] = "-" THEN 0 - ParseDigits(Tail(s)) ELSE ParseDigits(s)

Str_expires == <<"e","x","p","i","r","e","s">>
Str_max_age == <<"m","a","x","-","a","g","e">>
Str_domain == <<"d","o","m","a","i","n">>
Str_path == <<"p","a","t","h">>
Str_secure == <<"s","e","c","u","r","e">>
Str_httponly == <<"h","t","t","p","o","n","l","y">>

\* one turn of parse's loop over the cookie-avs
parseAv(cookie, rawAv) ==
  LET av == Trim(rawAv)
      avSep == IndexOf(av, <<"=">>)
      avKey == ToLowerCase(Trim(IF avSep = -1 THEN av ELSE Substr(av, 0, avSep)))
      avValue0 == IF avSep = -1 THEN Null ELSE SliceFrom(av, avSep + 1)
      avValue == IF Truthy(avValue0) THEN Trim(avValue0) ELSE avValue0
      exp == parseDate(avValue)
      domain == StripLeadingDot(Trim(avValue))
  IN  IF Len(av) = 0 THEN cookie
      ELSE IF avKey = Str_expires
      THEN IF Truthy(avValue) /\ exp # Null THEN [cookie EXCEPT !.expires = exp] ELSE cookie
      ELSE IF avKey = Str_max_age
      THEN IF Truthy(avValue) /\ IsInteger(avValue)
           THEN setMaxAge(cookie, Num(ParseInt(avValue))) ELSE cookie
      ELSE IF avKey = Str_domain
      THEN IF Truthy(avValue) /\ Truthy(domain)
           THEN [cookie EXCEPT !.domain = ToLowerCase(domain)] ELSE cookie
      ELSE IF avKey = Str_path
      THEN [cookie EXCEPT !.path = IF Truthy(avValue) /\ avValue[1] = "/"
                                   THEN avValue ELSE Null]
      ELSE IF avKey = Str_secure THEN [cookie EXCEPT !.secure = TRUE]
      ELSE IF avKey = Str_httponly THEN [cookie EXCEPT !.httpOnly = TRUE]
      ELSE [cookie EXCEPT !.extensions =
              List((IF cookie.extensions = Null THEN <<>> ELSE cookie.extensions[2]) \o <<av>>)]

RECURSIVE parseAvs(_, _)
parseAvs(cookie, cookieAvs) ==
  IF cookieAvs = <<>> THEN cookie
  ELSE parseAvs(parseAv(cookie, Head(cookieAvs)), Tail(cookieAvs))

\* parse(str, {loose}) at time `now`, `created` cookies having been constructed
\* before: whether a cookie is returned, the cookie, and whether new Cookie()
\* was reached
parse(str0, loose, now, created) ==
  LET str == Trim(str0)
      firstSemi == IndexOf(str, <<";">>)
      head == IF firstSemi = -1 THEN str ELSE Substr(str, 0, firstSemi)
      result == IF loose THEN MatchLOOSE_COOKIE_PAIR(head) ELSE MatchCOOKIE_PAIR(head)
      fresh == Cookie(<<>>, now, created + 1)
      cookie == [fresh EXCEPT !.key = IF Truthy(result.g1) THEN Trim(result.g2) ELSE <<>>,
                              !.value = Trim(result.g3)]
      unparsed == Trim(SliceFrom(str, firstSemi + 1))
  IN  IF ~result.matched
      THEN [ok |-> FALSE, cookie |-> fresh, constructed |-> FALSE]
      ELSE IF HasControlChar(cookie.key) \/ HasControlChar(cookie.value)
      THEN [ok |-> FALSE, cookie |-> cookie, constructed |-> TRUE]
      ELSE IF firstSemi = -1 \/ Len(unparsed) = 0
      THEN [ok |-> TRUE, cookie |-> cookie, constructed |-> TRUE]
      ELSE [ok |-> TRUE, cookie |-> parseAvs(cookie, Split(unparsed, ";")),
            constructed |-> TRUE]

---------------------------------------------------------------------------
(* The in-memory store: an index domain -> path -> key -> Cookie, held here as *)
(* the set of its cookies, no two with the same (domain, path, key)            *)

SameIdentity(a, b) == a.domain = b.domain /\ a.path = b.path /\ a.key = b.key

\* an optional cookie: <<>> for none, <<cookie>> for one
NoCookie == <<>>
Some(cookie) == <<cookie>>

\* store.findCookie(domain, path, key)
findCookie(store, domain, path, key) ==
  LET hit == { c \in store : c.domain = domain /\ c.path = path /\ c.key = key }
  IN  IF hit = {} THEN NoCookie ELSE Some(CHOOSE c \in hit : TRUE)

\* the elements of a sequence
Range(seq) == { seq[i] : i \in 1..Len(seq) }

\* the cookies store.findCookies(host, path) must return: those of every domain
\* of permuteDomain(host) and, for a path, of every path of permutePath(path)
MustFind(store, host, path) ==
  IF host = Null THEN {}
  ELSE { c \in store :
           /\ c.domain \in Range(permuteDomain(host))
           /\ path = Null \/ c.path \in Range(permutePath(path)) }

\* store.putCookie(cookie)
putCookie(store, cookie) == { c \in store : ~SameIdentity(c, cookie) } \cup {cookie}

\* store.updateCookie(oldCookie, newCookie)
updateCookie(store, oldCookie, newCookie) == putCookie(store, newCookie)

\* store.removeCookie(domain, path, key)
removeCookie(store, domain, path, key) ==
  { c \in store : ~(c.domain = domain /\ c.path = path /\ c.key = key) }

---------------------------------------------------------------------------
(* CookieJar.prototype.setCookie *)

\* the errors of setCookie
ParseError == "Cookie failed to parse"
PublicSuffixError == "Cookie has domain set to a public suffix"
DomainMismatchError == "Cookie not in this host's domain"
HttpOnlyError == "Cookie is HttpOnly and this isn't an HTTP API"
OldHttpOnlyError == "old Cookie is HttpOnly and this isn't an HTTP API"
NoError == "null"

\* the error handed to the callback whatever the options
DeliverAlways(options, err) == err

\* cb(options.ignoreError ? null : err)
Deliver(options, err) == IF options.ignoreError THEN NoError ELSE err

\* the host scope settled with the URL's hostname as it came
ScopeCookieRawHost(cookie, host, context) ==
  LET c1 == IF Truthy(cookie.domain)
            THEN [cookie EXCEPT !.hostOnly = IF cookie.hostOnly = Null THEN False3
                                             ELSE cookie.hostOnly]
            ELSE [cookie EXCEPT !.hostOnly = True3, !.domain = context.hostname]
  IN  IF ~Truthy(c1.path) \/ c1.path[1] # "/"
      THEN [c1 EXCEPT !.path = defaultPath(context.pathname), !.pathIsDefault = True3]
      ELSE c1

\* the host scope settled and the path left as it came
ScopeCookieKeepPath(cookie, host, context) ==
  IF Truthy(cookie.domain)
  THEN [cookie EXCEPT !.hostOnly = IF cookie.hostOnly = Null THEN False3
                                   ELSE cookie.hostOnly]
  ELSE [cookie EXCEPT !.hostOnly = True3, !.domain = host]

\* S5.3 step 6 and S5.2.4: the cookie with its host scope and its path settled
\* (the caller's record is assigned in place)
ScopeCookie(cookie, host, context) ==
  LET c1 == IF Truthy(cookie.domain)
            THEN [cookie EXCEPT !.hostOnly = IF cookie.hostOnly = Null THEN False3
                                             ELSE cookie.hostOnly]
            ELSE [cookie EXCEPT !.hostOnly = True3, !.domain = host]
  IN  IF ~Truthy(c1.path) \/ c1.path[1] # "/"
      THEN [c1 EXCEPT !.path = defaultPath(context.pathname), !.pathIsDefault = True3]
      ELSE c1

\* withCookie without its test of the old cookie's httpOnly
withCookieAnyHttp(store, cookie, oldCookie, options, now) ==
  LET old == oldCookie[1]
      replaced == [cookie EXCEPT !.creation = old.creation,
                                 !.creationIndex = old.creationIndex,
                                 !.lastAccessed = now]
      added == [cookie EXCEPT !.creation = now, !.lastAccessed = now]
  IN  IF oldCookie # NoCookie
      THEN [error |-> NoError, cbErr |-> NoError, cbCookie |-> Some(replaced),
            cookie |-> Some(replaced), store |-> updateCookie(store, old, replaced),
            wrote |-> "updateCookie"]
      ELSE [error |-> NoError, cbErr |-> NoError, cbCookie |-> Some(added),
            cookie |-> Some(added), store |-> putCookie(store, added),
            wrote |-> "putCookie"]

\* withCookie putting every cookie as a new one
withCookieAnew(store, cookie, oldCookie, options, now) ==
  LET old == oldCookie[1]
      added == [cookie EXCEPT !.creation = now, !.lastAccessed = now]
  IN  IF oldCookie # NoCookie /\ options.http = False3 /\ old.httpOnly
      THEN [error |-> OldHttpOnlyError, cbErr |-> Deliver(options, OldHttpOnlyError),
            cbCookie |-> NoCookie, cookie |-> Some(cookie), store |-> store,
                 wrote |-> "none"]
      ELSE [error |-> NoError, cbErr |-> NoError, cbCookie |-> Some(added),
            cookie |-> Some(added), store |-> putCookie(store, added),
            wrote |-> "putCookie"]

\* withCookie: what the store's findCookie answer leads to; `wrote` is the store
\* operation it calls
withCookie(store, cookie, oldCookie, options, now) ==
  LET old == oldCookie[1]
      replaced == [cookie EXCEPT !.creation = old.creation,
                                 !.creationIndex = old.creationIndex,
                                 !.lastAccessed = now]
      added == [cookie EXCEPT !.creation = now, !.lastAccessed = now]
  IN  IF oldCookie # NoCookie
      THEN IF options.http = False3 /\ old.httpOnly
           THEN [error |-> OldHttpOnlyError, cbErr |-> Deliver(options, OldHttpOnlyError),
                 cbCookie |-> NoCookie, cookie |-> Some(cookie), store |-> store,
                 wrote |-> "none"]
           ELSE [error |-> NoError, cbErr |-> NoError, cbCookie |-> Some(replaced),
                 cookie |-> Some(replaced), store |-> updateCookie(store, old, replaced),
            wrote |-> "updateCookie"]
      ELSE [error |-> NoError, cbErr |-> NoError, cbCookie |-> Some(added),
            cookie |-> Some(added), store |-> putCookie(store, added),
            wrote |-> "putCookie"]

\* setCookie's steps with the domain-match check decided before the
\* public-suffix check
setCookieStepsMatchFirst(store, reject, cookie, context, options, current) ==
  LET host == canonicalDomain(context.hostname)
      now == IF options.now # Null THEN options.now ELSE current
      scoped == ScopeCookie(cookie, host, context)
      fail(err, c) == [error |-> err, cbErr |-> Deliver(options, err),
                       cbCookie |-> NoCookie, cookie |-> Some(c), store |-> store]
  IN  IF Truthy(cookie.domain) /\ ~Truthy3(domainMatch(host, cdomain(cookie), False3))
      THEN fail(DomainMismatchError, cookie)
      ELSE IF reject /\ Truthy(cookie.domain) /\ getPublicSuffix(cdomain(cookie)) = Null
      THEN fail(PublicSuffixError, cookie)
      ELSE IF options.http = False3 /\ scoped.httpOnly
      THEN fail(HttpOnlyError, scoped)
      ELSE withCookie(store, scoped,
                      findCookie(store, scoped.domain, scoped.path, scoped.key),
                      options, now)

\* setCookie once the cookie is at hand (parsed, or the caller's record):
\* error is the failure ("null" for none), cbErr and cbCookie what the callback
\* receives, cookie the cookie object as the call leaves it, store the store
\* afterwards
setCookieSteps(store, reject, cookie, context, options, current) ==
  LET host == canonicalDomain(context.hostname)
      now == IF options.now # Null THEN options.now ELSE current
      scoped == ScopeCookie(cookie, host, context)
      fail(err, c) == [error |-> err, cbErr |-> Deliver(options, err),
                       cbCookie |-> NoCookie, cookie |-> Some(c), store |-> store]
  IN  IF reject /\ Truthy(cookie.domain) /\ getPublicSuffix(cdomain(cookie)) = Null
      THEN fail(PublicSuffixError, cookie)
      ELSE IF Truthy(cookie.domain) /\ ~Truthy3(domainMatch(host, cdomain(cookie), False3))
      THEN fail(DomainMismatchError, cookie)
      ELSE IF options.http = False3 /\ scoped.httpOnly
      THEN fail(HttpOnlyError, scoped)
      ELSE withCookie(store, scoped,
                      findCookie(store, scoped.domain, scoped.path, scoped.key),
                      options, now)

\* the effective loose flag of a call
LooseOf(looseMode, options) ==
  IF options.loose # Null THEN Truthy3(options.loose) ELSE looseMode

\* setCookie(cookie, url, options, cb) for a Set-Cookie string, `parsed` being
\* what Cookie.parse(cookie, {loose}) returns
setCookieString(store, reject, parsed, context, options, current) ==
  IF ~parsed.ok
  THEN [error |-> ParseError, cbErr |-> Deliver(options, ParseError),
        cbCookie |-> NoCookie, cookie |-> NoCookie, store |-> store]
  ELSE setCookieSteps(store, reject, parsed.cookie, context, options, current)

---------------------------------------------------------------------------
(* CookieJar.prototype.getCookies *)

\* cookieCompare without its path-length rule
cookieCompareByCreation(objA, objB) ==
  LET aTime == IF objA.creation # Null THEN getTime(objA.creation) ELSE MAX_TIME
      bTime == IF objB.creation # Null THEN getTime(objB.creation) ELSE MAX_TIME
  IN  IF aTime - bTime # 0 THEN aTime - bTime
      ELSE objA.creationIndex - objB.creationIndex

cookieCompare(objA, objB) ==
  LET aPathLen == IF Truthy(objA.path) THEN Len(objA.path) ELSE 0
      bPathLen == IF Truthy(objB.path) THEN Len(objB.path) ELSE 0
      aTime == IF objA.creation # Null THEN getTime(objA.creation) ELSE MAX_TIME
      bTime == IF objB.creation # Null THEN getTime(objB.creation) ELSE MAX_TIME
  IN  IF bPathLen - aPathLen # 0 THEN bPathLen - aPathLen
      ELSE IF aTime - bTime # 0 THEN aTime - bTime
      ELSE objA.creationIndex - objB.creationIndex

\* cookies.sort(cookieCompare): a stable sort; Insert puts c after every cookie
\* that does not compare greater than it
RECURSIVE Insert(_, _)
Insert(sorted, c) ==
  IF sorted = <<>> THEN <<c>>
  ELSE IF cookieCompare(Head(sorted), c) <= 0
  THEN <<Head(sorted)>> \o Insert(Tail(sorted), c)
  ELSE <<c>> \o sorted

RECURSIVE Sort(_)
Sort(cookies) ==
  IF cookies = <<>> THEN <<>>
  ELSE Insert(Sort(SubSeq(cookies, 1, Len(cookies) - 1)), cookies[Len(cookies)])

\* the request as getCookies derives it from the context and the options
Request(context, options, current) ==
  [host |-> canonicalDomain(context.hostname),
   path |-> IF Truthy(context.pathname) THEN context.pathname ELSE <<"/">>,
   secure |-> IF options.secure = Null /\ Truthy(context.protocol)
                 /\ context.protocol \in { <<"h","t","t","p","s",":">>, <<"w","s","s",":">> }
              THEN True3 ELSE options.secure,
   http |-> IF options.http = Null THEN True3 ELSE options.http,
   now |-> IF options.now # Null THEN options.now ELSE current,
   expireCheck |-> options.expire # False3,
   allPaths |-> Truthy3(options.allPaths)]

\* matchingCookie's scope tests with one of them left out: the host test, the
\* secure test, the httpOnly test
InScopeAnyHost(cookie, req) ==
  /\ req.allPaths \/ pathMatch(req.path, cookie.path)
  /\ ~(cookie.secure /\ ~Truthy3(req.secure))
  /\ ~(cookie.httpOnly /\ ~Truthy3(req.http))

InScopeAnySecure(cookie, req) ==
  /\ IF Truthy3(cookie.hostOnly)
     THEN cookie.domain = req.host
     ELSE Truthy3(domainMatch(req.host, cookie.domain, False3))
  /\ req.allPaths \/ pathMatch(req.path, cookie.path)
  /\ ~(cookie.httpOnly /\ ~Truthy3(req.http))

InScopeAnyHttp(cookie, req) ==
  /\ IF Truthy3(cookie.hostOnly)
     THEN cookie.domain = req.host
     ELSE Truthy3(domainMatch(req.host, cookie.domain, False3))
  /\ req.allPaths \/ pathMatch(req.path, cookie.path)
  /\ ~(cookie.secure /\ ~Truthy3(req.secure))

\* the four scope tests of matchingCookie: host, path, secure, httpOnly
InScope(cookie, req) ==
  /\ IF Truthy3(cookie.hostOnly)
     THEN cookie.domain = req.host
     ELSE Truthy3(domainMatch(req.host, cookie.domain, False3))
  /\ req.allPaths \/ pathMatch(req.path, cookie.path)
  /\ ~(cookie.secure /\ ~Truthy3(req.secure))
  /\ ~(cookie.httpOnly /\ ~Truthy3(req.http))

\* the expiry test with < for <=
ExpiredStrictly(cookie, req, current) ==
  /\ req.expireCheck
  /\ NumLeq(expiryTime(cookie, Null, current), Num(getTime(req.now)))
  /\ expiryTime(cookie, Null, current) # Num(getTime(req.now))

\* the expiry test made whatever options.expire says
ExpiredUnchecked(cookie, req, current) ==
  NumLeq(expiryTime(cookie, Null, current), Num(getTime(req.now)))

\* the expiry test of matchingCookie; expiryTime is called with no argument
Expired(cookie, req, current) ==
  req.expireCheck /\ NumLeq(expiryTime(cookie, Null, current), Num(getTime(req.now)))

matchingCookie(cookie, req, current) == InScope(cookie, req) /\ ~Expired(cookie, req, current)

\* array.filter(keep)
RECURSIVE Filter(_, _, _)
Filter(cookies, req, current) ==
  IF cookies = <<>> THEN <<>>
  ELSE (IF matchingCookie(Head(cookies), req, current) THEN <<Head(cookies)>> ELSE <<>>)
       \o Filter(Tail(cookies), req, current)

\* the callback getCookies gives to store.findCookies, on the store's answer
\* `found`: the cookies delivered, and the store afterwards (the expired ones
\* removed, the delivered ones touched: the store hands out its own objects)
getCookiesFound(store, found, req, options, current) ==
  LET kept == Filter(found, req, current)
      sorted == IF options.sort # False3 THEN Sort(kept) ELSE kept
      cookies == [i \in 1..Len(sorted) |-> [sorted[i] EXCEPT !.lastAccessed = current]]
      expired == { c \in Range(found) : InScope(c, req) /\ Expired(c, req, current) }
      left == { c \in store : \A e \in expired : ~SameIdentity(c, e) }
  IN  [cookies |-> cookies,
       store |-> { IF c \in Range(sorted) THEN [c EXCEPT !.lastAccessed = current] ELSE c :
                   c \in left }]

\* getCookieString's callback: cookies.sort(cookieCompare).map(cookieString).join('; ')
CookieHeader(cookies) ==
  LET sorted == Sort(cookies)
  IN  Join([i \in 1..Len(sorted) |-> cookieString(sorted[i])], <<";", " ">>)

---------------------------------------------------------------------------
(* The jar: its state and its calls *)

\* at most this many cookies are constructed
MaxCreated == 2
\* the clock runs from 0 to this
MaxClock == 1

\* the sequences that list the elements of a set once each
Orderings(S) ==
  { seq \in [1..Cardinality(S) -> S] : \A i, j \in 1..Cardinality(S) : seq[i] = seq[j] => i = j }

\* what store.findCookies(host, path) may answer: the cookies it must find and
\* any others, in any order
AnswersWith(store, must) == UNION { Orderings(must \cup more) : more \in SUBSET (store \ must) }

FindCookiesAnswers(store, host, path) == AnswersWith(store, MustFind(store, host, path))

---------------------------------------------------------------------------
(* CookieJar.prototype.serialize, importCookies, CookieJar.deserialize, clone *)

\* the objects handed to deserialize: null, a store, and the serialized form of
\* a jar
NullObject == [type |-> "null"]
MemoryCookieStore(cookies) == [type |-> "MemoryCookieStore", idx |-> cookies]
IsStore(obj) == obj.type = "MemoryCookieStore"

\* what store.getAllCookies may answer: every cookie once, in any order
getAllCookies(store) == Orderings(store)

\* serialize's callback on the store's answer `cookies`
serialize(reject, cookies) ==
  [type |-> "Object", storeType |-> "MemoryCookieStore", rejectPublicSuffixes |-> reject,
   cookies |-> [i \in 1..Len(cookies) |-> toJSON(cookies[i])]]

\* the outcomes of deserialize and clone: completed with a jar, completed with
\* an error, or left by an exception
Completed(reject, store, created) ==
  [outcome |-> "ok", error |-> NoError, rejectPublicSuffixes |-> reject, idx |-> store,
   created |-> created]
Failed(outcome, error, created) ==
  [outcome |-> outcome, error |-> error, rejectPublicSuffixes |-> FALSE, idx |-> {},
   created |-> created]

NoCookiesArrayError == "serialized jar has no cookies array"
TypeError == "TypeError"

\* putNext: the cookies of the serialized form decoded and put one by one
RECURSIVE putNext(_, _, _, _, _)
putNext(reject, store, cookies, now, created) ==
  IF cookies = <<>> THEN Completed(reject, store.idx, created)
  ELSE IF ~IsStore(store) THEN Failed("throw", TypeError, created + 1)
  ELSE putNext(reject,
               [store EXCEPT !.idx = putCookie(store.idx, fromJSON(Head(cookies), now, created + 1))],
               Tail(cookies), now, created + 1)

\* jar.importCookies(serialized, cb), the jar having this setting and store
importCookies(reject, store, serialized, now, created) ==
  IF "cookies" \notin DOMAIN serialized
  THEN Failed("error", NoCookiesArrayError, created)
  ELSE putNext(reject, store, serialized.cookies, now, created)

\* new CookieJar(store, options).rejectPublicSuffixes
CookieJarRejects(options) ==
  IF options \in BOOLEAN THEN options ELSE TRUE

\* CookieJar.deserialize(strOrObj, store, cb) of an object
deserialize(strOrObj, store, now, created) ==
  IF strOrObj.type = "null" THEN Failed("throw", TypeError, created)
  ELSE importCookies(CookieJarRejects(IF "rejectPublicSuffixes" \in DOMAIN strOrObj
                                      THEN strOrObj.rejectPublicSuffixes ELSE Null),
                     IF store.type = "null" THEN MemoryCookieStore({}) ELSE store,
                     strOrObj, now, created)

\* jar.clone(newStore, cb): serialize's callback on the store's answer `cookies`
clone(reject, cookies, newStore, now, created) ==
  deserialize(newStore, serialize(reject, cookies), now, created)

\* the Set-Cookie strings the model sets
Str_a1 == <<"a","=","1">>
Str_a1_path_x == <<"a","=","1",";"," ","P","a","t","h","=","/","x">>
Str_a2_path_root == <<"a","=","2",";"," ","P","a","t","h","=","/">>
Str_b6_secure == <<"b","=","6",";"," ","S","e","c","u","r","e">>
Str_s1_secure == <<"s","=","1",";"," ","S","e","c","u","r","e">>
Str_h1_httponly == <<"h","=","1",";"," ","H","t","t","p","O","n","l","y">>
Str_h2 == <<"h","=","2">>
Str_d3_domain_bc == <<"d","=","3",";"," ","D","o","m","a","i","n","=","b",".","c">>
Str_a7_domain_dot_BC ==
  <<"a","=","7",";"," ","D","o","m","a","i","n","=",".","B",".","C">>
Str_a4_domain_c == <<"a","=","4",";"," ","D","o","m","a","i","n","=","c">>
Str_e1_maxage_0 == <<"e","=","1",";"," ","M","a","x","-","A","g","e","=","0">>
Str_e2_maxage_1 == <<"e","=","2",";"," ","M","a","x","-","A","g","e","=","1">>
Str_e4_path_x_maxage_0 ==
  <<"e","=","4",";"," ","P","a","t","h","=","/","x","/",";"," ","M","a","x","-","A","g","e","=","0">>
Str_e3_expires_epoch ==
  <<"e","=","3",";"," ","E","x","p","i","r","e","s","=","T","h","u",","," ","0","1"," ",
    "J","a","n"," ","1","9","7","0"," ","0","0",":","0","0",":","0","0"," ","G","M","T">>
Str_x == <<"x">>
Str_a9_domain_dots_bc ==
  <<"a","=","9",";"," ","D","o","m","a","i","n","=",".",".","b",".","c">>
Str_p1_path_rel == <<"p","=","1",";"," ","P","a","t","h","=","x">>

SetCookieStrings ==
  { Str_a1, Str_a1_path_x, Str_a2_path_root, Str_b6_secure, Str_s1_secure, Str_h1_httponly,
    Str_h2, Str_d3_domain_bc, Str_a7_domain_dot_BC, Str_a4_domain_c, Str_e1_maxage_0,
    Str_e2_maxage_1, Str_e3_expires_epoch, Str_e4_path_x_maxage_0, Str_x,
    Str_a9_domain_dots_bc, Str_p1_path_rel }

\* parse(str, {loose}) of every such string, worked out once
Parses == [loose \in BOOLEAN |-> [str \in SetCookieStrings |-> parse(str, loose, Null, 0)]]

\* Cookie.parse(str, {loose}) called at time `now`, `created` cookies having been
\* constructed before: the constructor's creation and creationIndex are those
\* of the call
Constructed(p, now, created) ==
  [p EXCEPT !.cookie = [p.cookie EXCEPT !.creation = now, !.creationIndex = created + 1]]

parseCall(str, loose, now, created) == Constructed(Parses[loose][str], now, created)

Init ==
  /\ synchronous = TRUE
  /\ rejectPublicSuffixes \in BOOLEAN
  /\ enableLooseMode = FALSE
  /\ idx = {}
  /\ cookiesCreated = 0
  /\ clock = 0
  /\ last = [op |-> "none"]
  /\ inFlight = <<>>

\* time passes
Tick ==
  /\ clock < MaxClock
  /\ clock' = clock + 1
  /\ UNCHANGED <<inFlight, synchronous, rejectPublicSuffixes, enableLooseMode, idx, cookiesCreated, last>>

\* what a setCookie call leaves behind: `parsed` the cookie it is about, r the
\* outcome of its steps
SetCookieDone(call, parsed, r) ==
  /\ idx' = r.store
  /\ cookiesCreated' = IF parsed.constructed THEN cookiesCreated + 1 ELSE cookiesCreated
  /\ last' = [op |-> "setCookie", input |-> call.input, context |-> call.context,
              options |-> call.options,
              given |-> IF parsed.ok THEN Some(parsed.cookie) ELSE NoCookie,
              error |-> r.error, cbErr |-> r.cbErr, cbCookie |-> r.cbCookie,
              cookie |-> r.cookie, store0 |-> idx, now |-> Date(clock)]
  /\ UNCHANGED <<inFlight, synchronous, rejectPublicSuffixes, enableLooseMode, clock>>

SetCookieParsed(call, parsed) ==
  SetCookieDone(call, parsed,
                setCookieString(idx, rejectPublicSuffixes, parsed, call.context, call.options,
                                Date(clock)))

\* jar.setCookie(cookie, url, options, cb), `cookie` a Set-Cookie string
\* (call.str) or a Cookie the caller has just constructed (new Cookie(call.record))
SetCookie(call) ==
  /\ cookiesCreated < MaxCreated
  /\ SetCookieParsed(call,
       IF call.input = "string"
       THEN parseCall(call.str, LooseOf(enableLooseMode, call.options), Date(clock),
                      cookiesCreated)
       ELSE [ok |-> TRUE, constructed |-> TRUE,
             cookie |-> Cookie(call.record, Date(clock), cookiesCreated + 1)])

\* the path getCookies asks the store for
FindPath(call) ==
  IF Truthy3(call.options.allPaths) THEN Null
  ELSE Request(call.context, call.options, Date(clock)).path

\* getSetCookieStrings' callback: cookies.map(cookie => cookie.toString())
SetCookieHeaders(cookies) == [i \in 1..Len(cookies) |-> toString(cookies[i])]

\* what a getCookies call leaves behind, r the outcome of its callback
GetCookiesDone(call, found, r) ==
  /\ idx' = r.store
  /\ last' = [op |-> "getCookies", context |-> call.context, options |-> call.options,
              req |-> Request(call.context, call.options, Date(clock)),
              found |-> found, cookies |-> r.cookies, header |-> CookieHeader(r.cookies),
              strings |-> SetCookieHeaders(r.cookies), store0 |-> idx]
  /\ UNCHANGED <<inFlight, synchronous, rejectPublicSuffixes, enableLooseMode, cookiesCreated, clock>>

\* jar.getCookies(url, options, cb), the store answering `found`: last.cookies is
\* what it delivers.  getCookieString and getSetCookieStrings hand their
\* arguments on to getCookies and map what it delivers: last.header and
\* last.strings are what the same call delivers through them
GetCookies(call, found) ==
  GetCookiesDone(call, found,
                 getCookiesFound(idx, found, Request(call.context, call.options, Date(clock)),
                                 call.options, Date(clock)))

\* the error of a store whose operation fails
StoreError == "store failure"

\* the cookies of `found` that matchingCookie asks the store to remove
ExpiredOf(found, req, current) ==
  { c \in Range(found) : InScope(c, req) /\ Expired(c, req, current) }

\* getCookies waiting for the store's removeCookie: a removal that has not
\* succeeded is delivered as an error
getCookiesAwaitingRemove(store, err, found, removed, req, options, current) ==
  LET r == getCookiesFound(store, found, req, options, current)
  IN  IF err # NoError \/ ExpiredOf(found, req, current) \ removed # {}
      THEN [err |-> StoreError, delivered |-> FALSE, cookies |-> <<>>, store |-> store]
      ELSE [err |-> NoError, delivered |-> TRUE, cookies |-> r.cookies, store |-> r.store]

\* getCookies on a store of the caller's, whose findCookies answers err or
\* `found` and whose removeCookie has removed, when the list is delivered, only
\* the cookies of `removed` (the other removals fail or complete later): what
\* the callback receives, and the store afterwards
getCookiesOfStore(store, err, found, removed, req, options, current) ==
  LET kept == Filter(found, req, current)
      sorted == IF options.sort # False3 THEN Sort(kept) ELSE kept
      cookies == [i \in 1..Len(sorted) |-> [sorted[i] EXCEPT !.lastAccessed = current]]
      gone == ExpiredOf(found, req, current) \cap removed
      left == { c \in store : \A e \in gone : ~SameIdentity(c, e) }
  IN  IF err # NoError
      THEN [err |-> err, delivered |-> FALSE, cookies |-> <<>>, store |-> store]
      ELSE [err |-> NoError, delivered |-> TRUE, cookies |-> cookies,
            store |-> { IF c \in Range(sorted) THEN [c EXCEPT !.lastAccessed = current] ELSE c :
                        c \in left }]

GetCookiesOfStoreDone(call, err, found, removed, late, r) ==
  /\ idx' = r.store
  /\ last' = [op |-> "getCookies", context |-> call.context, options |-> call.options,
              req |-> Request(call.context, call.options, Date(clock)),
              found |-> found, cookies |-> r.cookies, header |-> CookieHeader(r.cookies),
              strings |-> SetCookieHeaders(r.cookies), store0 |-> idx,
              findError |-> err, error |-> r.err, delivered |-> r.delivered,
              expired |-> ExpiredOf(found, Request(call.context, call.options, Date(clock)),
                                    Date(clock)),
              removed |-> removed, pending |-> late, now |-> Date(clock)]
  /\ UNCHANGED <<inFlight, synchronous, rejectPublicSuffixes, enableLooseMode, cookiesCreated, clock>>

\* jar.getCookies(url, options, cb) on a store of the caller's: findCookies
\* answers err or `found`; of the removals getCookies asks for, those of
\* `removed` are done when the list is delivered, those of `late` complete
\* later and the others fail
GetCookiesOfStore(call, err, found, removed, late) ==
  /\ removed \cap late = {}
  /\ (removed \cup late) \subseteq
        ExpiredOf(found, Request(call.context, call.options, Date(clock)), Date(clock))
  /\ GetCookiesOfStoreDone(call, err, found, removed, late,
       getCookiesOfStore(idx, err, found, removed,
                         Request(call.context, call.options, Date(clock)),
                         call.options, Date(clock)))

\* the store completes the removals that were late; their callback does
\* nothing
RemoveCompletes ==
  /\ last.op = "getCookies" /\ "pending" \in DOMAIN last /\ last.pending # {}
  /\ idx' = { c \in idx : \A e \in last.pending : ~SameIdentity(c, e) }
  /\ last' = [last EXCEPT !.pending = {}]
  /\ UNCHANGED <<inFlight, synchronous, rejectPublicSuffixes, enableLooseMode, cookiesCreated, clock>>

\* jar.serialize(cb), the store answering `cookies` to getAllCookies
Serialize(cookies) ==
  /\ last' = [op |-> "serialize", error |-> NoError,
              serialized |-> serialize(rejectPublicSuffixes, cookies), store0 |-> idx]
  /\ UNCHANGED <<inFlight, synchronous, rejectPublicSuffixes, enableLooseMode, idx, cookiesCreated, clock>>

\* what a deserialize or a clone leaves behind: r its outcome, the jar it was
\* given or made from being this one
JarMade(op, r) ==
  /\ cookiesCreated' = r.created
  /\ last' = [op |-> op, outcome |-> r.outcome, error |-> r.error,
              jar |-> [rejectPublicSuffixes |-> r.rejectPublicSuffixes, idx |-> r.idx],
              source |-> [rejectPublicSuffixes |-> rejectPublicSuffixes, idx |-> idx],
              store0 |-> idx, now |-> Date(clock)]
  /\ UNCHANGED <<inFlight, synchronous, rejectPublicSuffixes, enableLooseMode, idx, clock>>

\* CookieJar.deserialize(serialized, store, cb) of what the jar's serialize has
\* just delivered
Deserialize(store) ==
  /\ last.op = "serialize"
  /\ cookiesCreated <= MaxCreated
  /\ JarMade("deserialize", deserialize(last.serialized, store, Date(clock), cookiesCreated))

\* jar.clone(newStore, cb), the store answering `cookies` to getAllCookies
Clone(newStore, cookies) ==
  /\ cookiesCreated <= MaxCreated
  /\ JarMade("clone", clone(rejectPublicSuffixes, cookies, newStore, Date(clock), cookiesCreated))

---------------------------------------------------------------------------
(* The synchronous facade: syncWrap and CookieJar.deserializeSync *)

NotSynchronousError == "CookieJar store is not synchronous; use async API instead."

\* what a method did with the callback syncWrap pushed: called it with an error
\* or a result, or left by an exception without calling it
CompletionPending(err, result) ==
  [completed |-> FALSE, err |-> NoError, result |-> <<>>, exception |-> NoError]
Completion(err, result) ==
  [completed |-> TRUE, err |-> err, result |-> result, exception |-> NoError]
Escaped(exception) ==
  [completed |-> FALSE, err |-> NoError, result |-> <<>>, exception |-> exception]

\* the completion of importCookies, deserialize and clone with outcome r
AsCompletion(r) ==
  IF r.outcome = "throw" THEN Escaped(r.error)
  ELSE IF r.outcome = "error" THEN Completion(r.error, <<>>)
  ELSE Completion(NoError, [rejectPublicSuffixes |-> r.rejectPublicSuffixes, idx |-> r.idx])

\* the facade on a store that is not synchronous: it throws at once
syncThrow(method, store0) ==
  [op |-> "sync", method |-> method, synchronous |-> FALSE, completed |-> FALSE,
   err |-> NoError, result |-> <<>>, threw |-> TRUE, thrown |-> NotSynchronousError,
   returned |-> <<>>, store0 |-> store0]

\* the facade on a synchronous store, c being what the method did: it throws
\* syncErr if there is one and returns syncResult otherwise
syncWrap(method, c, store0) ==
  [op |-> "sync", method |-> method, synchronous |-> TRUE, completed |-> c.completed,
   err |-> c.err, result |-> c.result,
   threw |-> c.exception # NoError \/ c.err # NoError,
   thrown |-> IF c.exception # NoError THEN c.exception ELSE c.err,
   returned |-> IF c.exception # NoError \/ c.err # NoError THEN <<>> ELSE <<c.result>>,
   store0 |-> store0]

\* a facade method called on a jar whose store is not synchronous
NotSynchronous(method) ==
  /\ last' = syncThrow(method, idx)
  /\ UNCHANGED <<inFlight, synchronous, rejectPublicSuffixes, enableLooseMode, idx, cookiesCreated, clock>>

\* the cookie a setCookie call is about: parsed from the string, or the record
CookieGiven(call) ==
  IF call.input = "string"
  THEN parseCall(call.str, LooseOf(enableLooseMode, call.options), Date(clock), cookiesCreated)
  ELSE [ok |-> TRUE, constructed |-> TRUE,
        cookie |-> Cookie(call.record, Date(clock), cookiesCreated + 1)]

SetCookieSyncDone(parsed, r) ==
  /\ idx' = r.store
  /\ cookiesCreated' = IF parsed.constructed THEN cookiesCreated + 1 ELSE cookiesCreated
  /\ last' = syncWrap("setCookie", Completion(r.cbErr, r.cbCookie), idx)
  /\ UNCHANGED <<inFlight, synchronous, rejectPublicSuffixes, enableLooseMode, clock>>

SetCookieSyncParsed(call, parsed) ==
  SetCookieSyncDone(parsed,
                    setCookieString(idx, rejectPublicSuffixes, parsed, call.context,
                                    call.options, Date(clock)))

\* jar.setCookieSync(cookie, url, options)
SetCookieSync(call) ==
  /\ cookiesCreated < MaxCreated
  /\ IF synchronous THEN SetCookieSyncParsed(call, CookieGiven(call))
     ELSE NotSynchronous("setCookie")

\* the three facades of getCookies
GetMethods == {"getCookies", "getCookieString", "getSetCookieStrings"}

GetCookiesSyncDone(method, r) ==
  /\ idx' = r.store
  /\ last' = syncWrap(method,
                      Completion(NoError,
                                 IF method = "getCookies" THEN r.cookies
                                 ELSE IF method = "getCookieString" THEN CookieHeader(r.cookies)
                                 ELSE SetCookieHeaders(r.cookies)),
                      idx)
  /\ UNCHANGED <<inFlight, synchronous, rejectPublicSuffixes, enableLooseMode, cookiesCreated, clock>>

\* jar.getCookiesSync, getCookieStringSync and getSetCookieStringsSync(url,
\* options), the store answering `found`
GetCookiesSync(method, call, found) ==
  IF synchronous
  THEN GetCookiesSyncDone(method,
         getCookiesFound(idx, found, Request(call.context, call.options, Date(clock)),
                         call.options, Date(clock)))
  ELSE NotSynchronous(method)

\* jar.serializeSync(), the store answering `cookies` to getAllCookies
SerializeSync(cookies) ==
  IF synchronous
  THEN /\ last' = syncWrap("serialize",
                           Completion(NoError, serialize(rejectPublicSuffixes, cookies)), idx)
       /\ UNCHANGED <<inFlight, synchronous, rejectPublicSuffixes, enableLooseMode, idx, cookiesCreated,
                      clock>>
  ELSE NotSynchronous("serialize")

ImportCookiesSyncDone(r) ==
  /\ idx' = IF r.outcome = "ok" THEN r.idx ELSE idx
  /\ cookiesCreated' = r.created
  /\ last' = syncWrap("importCookies", AsCompletion(r), idx)
  /\ UNCHANGED <<inFlight, synchronous, rejectPublicSuffixes, enableLooseMode, clock>>

\* jar.importCookiesSync(serialized)
ImportCookiesSync(serialized) ==
  /\ cookiesCreated <= MaxCreated
  /\ IF synchronous
     THEN ImportCookiesSyncDone(importCookies(rejectPublicSuffixes, MemoryCookieStore(idx),
                                              serialized, Date(clock), cookiesCreated))
     ELSE NotSynchronous("importCookies")

CloneSyncDone(r) ==
  /\ cookiesCreated' = r.created
  /\ last' = syncWrap("clone", AsCompletion(r), idx)
  /\ UNCHANGED <<inFlight, synchronous, rejectPublicSuffixes, enableLooseMode, idx, clock>>

\* jar.cloneSync(newStore), the store answering `cookies` to getAllCookies
CloneSync(newStore, cookies) ==
  /\ cookiesCreated <= MaxCreated
  /\ IF synchronous
     THEN CloneSyncDone(clone(rejectPublicSuffixes, cookies, newStore, Date(clock),
                              cookiesCreated))
     ELSE NotSynchronous("clone")

\* CookieJar.deserializeSync(strOrObj, store) of an object: what it throws or
\* returns, r being what importCookies does on the new jar
deserializeSync(storeSynchronous, r, store0) ==
  IF ~storeSynchronous THEN syncThrow("deserialize", store0)
  ELSE syncWrap("deserialize", AsCompletion(r), store0)

DeserializeSyncDone(storeSynchronous, r) ==
  /\ cookiesCreated' = IF storeSynchronous THEN r.created ELSE cookiesCreated
  /\ last' = deserializeSync(storeSynchronous, r, idx)
  /\ UNCHANGED <<inFlight, synchronous, rejectPublicSuffixes, enableLooseMode, idx, clock>>

\* CookieJar.deserializeSync(serialized, store), the store passed in having
\* this synchronous flag; the store made when none is passed is synchronous
DeserializeSync(serialized, store, storeSynchronous) ==
  /\ cookiesCreated <= MaxCreated
  /\ DeserializeSyncDone(store.type = "null" \/ storeSynchronous,
                         deserialize(serialized, store, Date(clock), cookiesCreated))

---------------------------------------------------------------------------
(* The request URLs and the options of the calls *)

Host_bc == <<"b",".","c">>
Host_abc == <<"a",".","b",".","c">>
Host_c == <<"c">>
Host_BC == <<"B",".","C">>
Host_d == <<"d">>
Path_root == <<"/">>
Path_xy == <<"/","x","/","y">>
Proto_http == <<"h","t","t","p",":">>
Proto_https == <<"h","t","t","p","s",":">>
Proto_wss == <<"w","s","s",":">>

\* http://b.c/, https://b.c/, wss://b.c/, https://b.c/x/y, http://b.c/x/y, http://a.b.c/ and
\* http://c/ (c is a public suffix), as getCookieContext hands them on, and a URL
\* object of the caller's whose hostname is in upper case
Url_bc == [hostname |-> Host_bc, pathname |-> Path_root, protocol |-> Proto_http]
Url_bc_s == [hostname |-> Host_bc, pathname |-> Path_root, protocol |-> Proto_https]
Url_bc_wss == [hostname |-> Host_bc, pathname |-> Path_root, protocol |-> Proto_wss]
Url_bc_xy_s == [hostname |-> Host_bc, pathname |-> Path_xy, protocol |-> Proto_https]
Url_bc_xy == [hostname |-> Host_bc, pathname |-> Path_xy, protocol |-> Proto_http]
Url_abc == [hostname |-> Host_abc, pathname |-> Path_root, protocol |-> Proto_http]
Url_c == [hostname |-> Host_c, pathname |-> Path_root, protocol |-> Proto_http]
Url_BC == [hostname |-> Host_BC, pathname |-> Path_root, protocol |-> Proto_http]
\* http://d/, a host that no domain of the model's cookies matches
Url_d == [hostname |-> Host_d, pathname |-> Path_root, protocol |-> Proto_http]

NoSetOptions == [http |-> Null, ignoreError |-> FALSE, loose |-> Null, now |-> Null]
NoGetOptions ==
  [secure |-> Null, http |-> Null, now |-> Null, expire |-> Null, allPaths |-> Null,
   sort |-> Null]

SetString(str, context, options) ==
  [input |-> "string", str |-> str, context |-> context, options |-> options]
SetRecord(record, context, options) ==
  [input |-> "record", record |-> record, context |-> context, options |-> options]
Get(context, options) == [context |-> context, options |-> options]

---------------------------------------------------------------------------
(* Specification Spec: host scope.  Cookies with and without a Domain        *)
(* attribute are set from a host, from a subdomain of it and from a public   *)
(* suffix, and asked for from each of the three.                             *)

\* a record that comes with a domain and with hostOnly already true
Record_a5_bc_hostOnly ==
  [key |-> <<"a">>, value |-> <<"5">>, domain |-> Host_bc, hostOnly |-> True3]

ScopeSets ==
  { SetString(Str_a1, Url_bc, NoSetOptions),
    SetString(Str_a1, Url_BC, NoSetOptions),
    SetString(Str_a1, Url_abc, NoSetOptions),
    SetString(Str_a1, Url_c, NoSetOptions),
    SetString(Str_a7_domain_dot_BC, Url_bc, NoSetOptions),
    SetString(Str_d3_domain_bc, Url_abc, NoSetOptions),
    SetString(Str_d3_domain_bc, Url_c, NoSetOptions),
    SetString(Str_a4_domain_c, Url_bc, NoSetOptions),
    SetString(Str_a4_domain_c, Url_c, NoSetOptions),
    SetString(Str_x, Url_bc, [NoSetOptions EXCEPT !.ignoreError = TRUE]),
    SetRecord(Record_a5_bc_hostOnly, Url_abc, NoSetOptions),
    SetRecord(Record_a5_bc_hostOnly, Url_bc, NoSetOptions) }

ScopeGets ==
  { Get(Url_bc, NoGetOptions), Get(Url_abc, NoGetOptions), Get(Url_c, NoGetOptions),
    Get(Url_bc_xy, [NoGetOptions EXCEPT !.allPaths = True3]) }

\* what the store may answer to the findCookies of such a get
Answers(call) ==
  FindCookiesAnswers(idx, canonicalDomain(call.context.hostname), FindPath(call))

Next ==
  \/ \E call \in ScopeSets : SetCookie(call)
  \/ \E call \in ScopeGets : \E found \in Answers(call) : GetCookies(call, found)

Spec == Init /\ [][Next]_vars

---------------------------------------------------------------------------
(* Specification SpecFlags: Secure and HttpOnly.  Cookies with the two flags *)
(* are set over http and https, from HTTP and from non-HTTP APIs, and asked  *)
(* for with every effective secure and http flag.                            *)

NonHttp == [NoSetOptions EXCEPT !.http = False3]
NonHttpIgnoreError == [NoSetOptions EXCEPT !.http = False3, !.ignoreError = TRUE]

\* a record that is httpOnly, its path not set
Record_h3_httpOnly == [key |-> <<"h">>, value |-> <<"3">>, httpOnly |-> TRUE]

FlagSets ==
  { SetString(Str_s1_secure, Url_bc_s, NoSetOptions),
    SetString(Str_h1_httponly, Url_bc, NoSetOptions),
    SetString(Str_h1_httponly, Url_bc, NonHttp),
    SetString(Str_h1_httponly, Url_bc, NonHttpIgnoreError),
    SetString(Str_h2, Url_bc, NoSetOptions),
    SetString(Str_h2, Url_bc, NonHttp),
    SetString(Str_h2, Url_bc, NonHttpIgnoreError),
    SetRecord(Record_h3_httpOnly, Url_bc, NonHttp) }

FlagGets ==
  { Get(Url_bc, NoGetOptions),
    Get(Url_bc_s, NoGetOptions),
    Get(Url_bc_wss, NoGetOptions),
    Get(Url_bc, [NoGetOptions EXCEPT !.secure = True3]),
    Get(Url_bc_s, [NoGetOptions EXCEPT !.secure = False3]),
    Get(Url_bc, [NoGetOptions EXCEPT !.http = False3]),
    Get(Url_bc_s, [NoGetOptions EXCEPT !.http = True3]) }

NextFlags ==
  \/ \E call \in FlagSets : SetCookie(call)
  \/ \E call \in FlagGets : \E found \in Answers(call) : GetCookies(call, found)

SpecFlags == Init /\ [][NextFlags]_vars

---------------------------------------------------------------------------
(* Specification SpecTime: replacement and order.  Cookies of one host are   *)
(* set and set again while the clock runs, and asked for from a path below   *)
(* theirs.                                                                   *)

TimeSets ==
  { SetString(Str_a1_path_x, Url_bc, NoSetOptions),
    SetString(Str_a2_path_root, Url_bc, NoSetOptions),
    SetString(Str_a1, Url_bc, NoSetOptions),
    SetString(Str_b6_secure, Url_bc, NoSetOptions) }

TimeGets ==
  { Get(Url_bc_xy, NoGetOptions),
    Get(Url_bc_xy_s, [NoGetOptions EXCEPT !.sort = False3]) }

NextTime ==
  \/ Tick
  \/ \E call \in TimeSets : SetCookie(call)
  \/ \E call \in TimeGets : \E found \in Answers(call) : GetCookies(call, found)

SpecTime == Init /\ [][NextTime]_vars

---------------------------------------------------------------------------
(* Specification SpecExpiry: expiry.  Cookies that have expired, that expire *)
(* as the clock runs and that never expire are set and asked for.            *)

ExpirySets ==
  { SetString(Str_a1, Url_bc, NoSetOptions),
    SetString(Str_e1_maxage_0, Url_bc, NoSetOptions),
    SetString(Str_e2_maxage_1, Url_bc, NoSetOptions),
    SetString(Str_e3_expires_epoch, Url_bc, NoSetOptions),
    SetString(Str_e4_path_x_maxage_0, Url_bc, NoSetOptions) }

ExpiryGets ==
  { Get(Url_bc, NoGetOptions),
    Get(Url_bc_xy, NoGetOptions),
    Get(Url_bc, [NoGetOptions EXCEPT !.expire = False3]) }

NextExpiry ==
  \/ Tick
  \/ \E call \in ExpirySets : SetCookie(call)
  \/ \E call \in ExpiryGets : \E found \in Answers(call) : GetCookies(call, found)

SpecExpiry == Init /\ [][NextExpiry]_vars

---------------------------------------------------------------------------
(* Specification SpecJson: serialization.  Cookies with every kind of field  *)
(* are set and asked for while the clock runs; the jar is serialized, what   *)
(* it delivers is deserialized, and the jar is cloned, into a fresh store    *)
(* and into a store that is passed in.                                       *)

JsonSets ==
  { SetString(Str_a1, Url_bc, NoSetOptions),
    SetString(Str_d3_domain_bc, Url_abc, NoSetOptions),
    SetString(Str_e3_expires_epoch, Url_bc, NoSetOptions),
    SetString(Str_e2_maxage_1, Url_bc, NoSetOptions),
    SetString(Str_h1_httponly, Url_bc, NoSetOptions) }

JsonGets == { Get(Url_bc, [NoGetOptions EXCEPT !.expire = False3]) }

\* the stores handed to deserialize and to clone: none, and an empty one
NewStores == { NullObject, MemoryCookieStore({}) }

NextJson ==
  \/ Tick
  \/ \E call \in JsonSets : SetCookie(call)
  \/ \E call \in JsonGets : \E found \in Answers(call) : GetCookies(call, found)
  \/ \E cookies \in getAllCookies(idx) : Serialize(cookies)
  \/ \E store \in NewStores : Deserialize(store)
  \/ \E store \in NewStores : \E cookies \in getAllCookies(idx) : Clone(store, cookies)

SpecJson == Init /\ [][NextJson]_vars

---------------------------------------------------------------------------
(* Specification SpecPure: the exported functions domainMatch and            *)
(* cookieCompare, called on every pair of domain strings and on every three  *)
(* cookies of a bounded supply.                                              *)

\* the domain strings are every string of at most this many characters
MaxDomainLen == 3

\* their characters: a letter in both cases and the dot
DomainChars == {"b", "B", "."}

\* the strings of exactly n characters
RECURSIVE StringsOfLen(_)
StringsOfLen(n) ==
  IF n = 0 THEN { <<>> }
  ELSE { <<ch>> \o str : ch \in DomainChars, str \in StringsOfLen(n - 1) }

\* and some longer ones: host names of two and three labels, IPv4 literals and
\* their tails
DomainStrings ==
  UNION { StringsOfLen(n) : n \in 0..MaxDomainLen }
    \cup { Host_bc, Host_abc, <<"b","b",".","c">>, <<"b",".","c",".","b",".","c">>,
           <<"1",".","2",".","3",".","4">>, <<"2",".","3",".","4">>, <<"4">> }

\* the calls of domainMatch from outside
DomainMatchCalls ==
  { [op |-> "call", fn |-> "domainMatch", str |-> str, domStr |-> domStr,
     canonicalize |-> canonicalize] :
      str \in DomainStrings, domStr \in DomainStrings, canonicalize \in {Null, True3, False3} }

\* the cookies handed to cookieCompare: of every path length, creation time
\* and creationIndex of the bounds, the creation time missing and the latest
\* one included
ComparedCookies ==
  { [CookiePrototype EXCEPT !.path = path, !.creation = creation, !.creationIndex = index] :
      path \in {Null, Path_root, Path_xy},
      creation \in {Null, Date(MAX_TIME)} \cup { Date(t) : t \in 0..MaxClock },
      index \in 1..MaxCreated }

\* the calls of cookieCompare from outside, on each two of three cookies
CookieCompareCalls ==
  { [op |-> "call", fn |-> "cookieCompare", a |-> a, b |-> b, c |-> c] :
      a \in ComparedCookies, b \in ComparedCookies, c \in ComparedCookies }

\* a call is at hand
InitPure ==
  /\ synchronous = TRUE
  /\ rejectPublicSuffixes = TRUE
  /\ enableLooseMode = FALSE
  /\ idx = {}
  /\ cookiesCreated = 0
  /\ clock = 0
  /\ last \in DomainMatchCalls \cup CookieCompareCalls
  /\ inFlight = <<>>

\* domainMatch(str, domStr, canonicalize) returns
DomainMatch ==
  /\ last.op = "call" /\ last.fn = "domainMatch"
  /\ last' = [op |-> "domainMatch", str |-> last.str, domStr |-> last.domStr,
              canonicalize |-> last.canonicalize,
              result |-> domainMatch(last.str, last.domStr, last.canonicalize)]
  /\ UNCHANGED <<inFlight, synchronous, rejectPublicSuffixes, enableLooseMode, idx, cookiesCreated, clock>>

\* cookieCompare returns, for each two of the three cookies
CookieCompare ==
  /\ last.op = "call" /\ last.fn = "cookieCompare"
  /\ last' = [op |-> "cookieCompare", a |-> last.a, b |-> last.b, c |-> last.c,
              ab |-> cookieCompare(last.a, last.b), ba |-> cookieCompare(last.b, last.a),
              bc |-> cookieCompare(last.b, last.c), ac |-> cookieCompare(last.a, last.c)]
  /\ UNCHANGED <<inFlight, synchronous, rejectPublicSuffixes, enableLooseMode, idx, cookiesCreated, clock>>

NextPure == DomainMatch \/ CookieCompare

SpecPure == InitPure /\ [][NextPure]_vars

---------------------------------------------------------------------------
(* Specification SpecSync: the synchronous facade.  Every facade method is   *)
(* called on a jar whose store is synchronous and on one whose store is not. *)

InitSync ==
  /\ synchronous \in BOOLEAN
  /\ rejectPublicSuffixes = TRUE
  /\ enableLooseMode = FALSE
  /\ idx = {}
  /\ cookiesCreated = 0
  /\ clock = 0
  /\ last = [op |-> "none"]
  /\ inFlight = <<>>

SyncSets ==
  { SetString(Str_a1, Url_bc, NoSetOptions),
    SetString(Str_h2, Url_bc, NoSetOptions),
    SetString(Str_x, Url_bc, NoSetOptions),
    SetString(Str_x, Url_bc, [NoSetOptions EXCEPT !.ignoreError = TRUE]),
    SetString(Str_a4_domain_c, Url_bc, NoSetOptions) }

SyncGets == { Get(Url_bc, NoGetOptions) }

\* what is handed to importCookiesSync and deserializeSync: what serialize
\* delivers for the jar, and an object without a cookies array
SerializedForms ==
  { serialize(rejectPublicSuffixes, cookies) : cookies \in getAllCookies(idx) }
    \cup { [type |-> "Object"] }

NextSync ==
  \/ \E call \in SyncSets : SetCookieSync(call)
  \/ \E method \in GetMethods : \E call \in SyncGets : \E found \in Answers(call) :
        GetCookiesSync(method, call, found)
  \/ \E cookies \in getAllCookies(idx) : SerializeSync(cookies)
  \/ \E serialized \in SerializedForms : ImportCookiesSync(serialized)
  \/ \E store \in NewStores : \E cookies \in getAllCookies(idx) : CloneSync(store, cookies)
  \/ \E serialized \in SerializedForms : \E store \in NewStores :
        \E storeSynchronous \in BOOLEAN : DeserializeSync(serialized, store, storeSynchronous)

SpecSync == InitSync /\ [][NextSync]_vars

---------------------------------------------------------------------------
(* Specification SpecPolicy: the policy of setCookie.  Cookies that fail to  *)
(* parse, whose domain is a public suffix or is not the host's, that are     *)
(* httpOnly from a non-HTTP API, and cookies with every kind of domain and   *)
(* path are set, with and without ignoreError.                               *)

IgnoreError == [NoSetOptions EXCEPT !.ignoreError = TRUE]

\* records that come with a domain in upper case and with a relative path
Record_a8_BC == [key |-> <<"a">>, value |-> <<"8">>, domain |-> Host_BC]
Record_p2_path_rel == [key |-> <<"p">>, value |-> <<"2">>, path |-> <<"x">>]

PolicySets ==
  { SetString(Str_x, Url_bc, NoSetOptions),
    SetString(Str_x, Url_bc, IgnoreError),
    SetString(Str_a4_domain_c, Url_bc, NoSetOptions),
    SetString(Str_a4_domain_c, Url_bc, IgnoreError),
    SetString(Str_a4_domain_c, Url_c, NoSetOptions),
    SetString(Str_a4_domain_c, Url_d, NoSetOptions),
    SetString(Str_d3_domain_bc, Url_c, NoSetOptions),
    SetString(Str_d3_domain_bc, Url_c, IgnoreError),
    SetString(Str_d3_domain_bc, Url_abc, NoSetOptions),
    SetString(Str_h1_httponly, Url_bc, NoSetOptions),
    SetString(Str_h1_httponly, Url_bc, NonHttp),
    SetString(Str_h1_httponly, Url_bc, NonHttpIgnoreError),
    SetString(Str_h2, Url_bc, NonHttp),
    SetString(Str_h2, Url_bc, NonHttpIgnoreError),
    SetString(Str_a9_domain_dots_bc, Url_bc, NoSetOptions),
    SetRecord(Record_a8_BC, Url_bc, NoSetOptions),
    SetString(Str_a1, Url_bc_xy, NoSetOptions),
    SetString(Str_a1_path_x, Url_bc_xy, NoSetOptions),
    SetString(Str_p1_path_rel, Url_bc_xy, NoSetOptions),
    SetRecord(Record_p2_path_rel, Url_bc_xy, NoSetOptions) }

NextPolicy == \E call \in PolicySets : SetCookie(call)

SpecPolicy == Init /\ [][NextPolicy]_vars

---------------------------------------------------------------------------
(* Specification SpecGet: getCookies on a store of the caller's.  Cookies    *)
(* that a filter drops, that have expired and that are delivered are set     *)
(* and asked for, with and without options.now, from a store whose           *)
(* findCookies may fail and whose removeCookie may fail or complete late.    *)

GetSets ==
  { SetString(Str_a1, Url_bc, NoSetOptions),
    SetString(Str_s1_secure, Url_bc, NoSetOptions),
    SetString(Str_e1_maxage_0, Url_bc, NoSetOptions),
    SetString(Str_e2_maxage_1, Url_bc, NoSetOptions) }

GetGets ==
  { Get(Url_bc, NoGetOptions),
    Get(Url_bc, [NoGetOptions EXCEPT !.now = Date(0)]) }

\* the cookies of the answer `found` whose removal the call asks for
ExpiredFor(call, found) ==
  ExpiredOf(found, Request(call.context, call.options, Date(clock)), Date(clock))

NextGet ==
  \/ Tick
  \/ \E call \in GetSets : SetCookie(call)
  \/ \E call \in GetGets : \E err \in {NoError, StoreError} : \E found \in Answers(call) :
        \E removed \in SUBSET ExpiredFor(call, found) :
           \E late \in SUBSET (ExpiredFor(call, found) \ removed) :
              GetCookiesOfStore(call, err, found, removed, late)
  \/ RemoveCompletes

SpecGet == Init /\ [][NextGet]_vars

---------------------------------------------------------------------------
(* Specification SpecCookie: the methods of a cookie.  clone, toString,      *)
(* validate, TTL and expiryDate are called on cookies made by new Cookie     *)
(* with every kind of value, path, maxAge, expires, domain and hostOnly, on  *)
(* such cookies after creation or lastAccessed was assigned, and on cookies  *)
(* made by Cookie.parse.                                                     *)

MaxValueLen == 2

\* the strings over a set of characters, of a length up to n
RECURSIVE StringsUpTo(_, _)
StringsUpTo(chars, n) ==
  IF n = 0 THEN { <<>> }
  ELSE LET shorter == StringsUpTo(chars, n - 1)
       IN  shorter \cup { <<ch>> \o s : ch \in chars, s \in { t \in shorter : Len(t) = n - 1 } }

\* values: of cookie-octets, and with a semicolon or a space
ValueStrings == StringsUpTo({"1", ";", " "}, MaxValueLen)

\* paths: none, and of path characters, semicolons and control characters
PathStrings == {Null} \cup (StringsUpTo({"/", ";", "\t"}, MaxValueLen) \ { <<>> })

Key_a == <<"a">>
Value_1 == <<"1">>
Host_bc_dot == <<"b", ".", "c", ".">>

ValueCookies ==
  { Cookie([key |-> Key_a, value |-> v], Date(0), 1) : v \in ValueStrings }

PathCookies ==
  { Cookie([key |-> Key_a, value |-> Value_1, path |-> p], Date(0), 1) : p \in PathStrings }

FieldOptions ==
  [key : {Key_a}, value : {Value_1},
   maxAge : {Null, Num(-5), Num(0), Num(1), PosInf, NegInf},
   expires : {PosInf, Date(0), Date(1)},
   domain : {Null, <<"b", ".", "c">>, <<"c">>},
   hostOnly : {Null, True3, False3}]

\* cookies as new Cookie(options) makes them, and with creation set to null or
\* lastAccessed set to a date afterwards
FieldCookies ==
  { [Cookie(options, Date(0), 1) EXCEPT !.creation = creation, !.lastAccessed = lastAccessed] :
      options \in FieldOptions, creation \in {Null, Date(0)}, lastAccessed \in {Null, Date(1)} }

Str_e5_maxage_m5 == <<"e","=","5",";"," ","M","a","x","-","A","g","e","=","-","5">>
Str_e6_maxage_0_expires ==
  <<"e","=","6",";"," ","M","a","x","-","A","g","e","=","0",";"," ","E","x","p","i","r","e","s","=",
    "0","1"," ","J","a","n"," ","2","0","0","0"," ","0","0",":","0","0",":","0","0">>

\* cookies as Cookie.parse makes them, and a cookie whose domain ends with a dot
ParsedCookies ==
  { Constructed(parse(str, FALSE, Null, 0), Date(0), 0).cookie :
      str \in {Str_e5_maxage_m5, Str_e6_maxage_0_expires, Str_a1} }
    \cup { Cookie([key |-> Key_a, value |-> Value_1, domain |-> Host_bc_dot], Date(0), 1) }

CookieSupply == ValueCookies \cup PathCookies \cup FieldCookies \cup ParsedCookies

\* the now argument of TTL and expiryDate: not given, or a time
Nows == {Null} \cup { Date(t) : t \in 0..MaxClock }

InitCookie ==
  /\ synchronous = TRUE
  /\ rejectPublicSuffixes = TRUE
  /\ enableLooseMode = FALSE
  /\ idx = {}
  /\ cookiesCreated = 1
  /\ clock \in 0..MaxClock
  /\ last \in { [op |-> "cookie", cookie |-> c, now |-> now] : c \in CookieSupply, now \in Nows }
  /\ inFlight = <<>>

\* a method of the cookie at hand is called and gives this result
CookieMethod(method, result) ==
  /\ last.op = "cookie"
  /\ last' = [op |-> method, cookie |-> last.cookie, now |-> last.now, result |-> result]
  /\ UNCHANGED <<inFlight, synchronous, rejectPublicSuffixes, enableLooseMode, idx, clock>>

\* cookie.clone()
CookieClone ==
  /\ CookieMethod("Cookie.clone", cookieClone(last.cookie, Date(clock), cookiesCreated + 1))
  /\ cookiesCreated' = cookiesCreated + 1

\* cookie.toString()
CookieToString ==
  /\ CookieMethod("Cookie.toString", toString(last.cookie))
  /\ UNCHANGED cookiesCreated

\* cookie.validate()
CookieValidate ==
  /\ CookieMethod("Cookie.validate", validate(last.cookie))
  /\ UNCHANGED cookiesCreated

\* cookie.TTL(now)
CookieTTL ==
  /\ CookieMethod("Cookie.TTL", TTL(last.cookie, last.now, Date(clock)))
  /\ UNCHANGED cookiesCreated

\* cookie.expiryDate(now)
CookieExpiryDate ==
  /\ CookieMethod("Cookie.expiryDate", expiryDate(last.cookie, last.now, Date(clock)))
  /\ UNCHANGED cookiesCreated

NextCookie ==
  \/ CookieClone
  \/ CookieToString
  \/ CookieValidate
  \/ CookieTTL
  \/ CookieExpiryDate

SpecCookie == InitCookie /\ [][NextCookie]_vars

---------------------------------------------------------------------------
(* Specification SpecCodec: parseDate, formatDate and defaultPath, called    *)
(* on cookie dates made of every kind of time, day, month and year token in  *)
(* two orders, on timestamps of several days and times of day, and on every  *)
(* path of a bounded length.                                                 *)

\* the tokens of the dates: none, in range, at the limits and out of range
TimeTokens ==
  { <<>>,
    <<"0","0",":","0","0",":","0","0">>,
    <<"2","3",":","5","9",":","5","9">>,
    <<"2","4",":","0","0",":","0","0">>,
    <<"0","0",":","6","0",":","0","0">>,
    <<"0","0",":","0","0",":","6","0">>,
    <<"1",":","2",":","3">> }
DayTokens ==
  { <<>>,
    <<"0","1">>,
    <<"3","1">>,
    <<"0","0">>,
    <<"3","2">>,
    <<"7">> }
MonthTokens ==
  { <<>>,
    <<"J","a","n">>,
    <<"d","e","c">>,
    <<"F","e","b","r">> }
YearTokens ==
  { <<>>,
    <<"1","6","0","0">>,
    <<"1","6","0","1">>,
    <<"7","0">>,
    <<"6","9">>,
    <<"1","9","7","0">>,
    <<"1","2","3">> }

\* a cookie date of four tokens, a space between them
SpacedDate(a, b, c, d) == a \o <<" ">> \o b \o <<" ">> \o c \o <<" ">> \o d

DateStrings ==
  { SpacedDate(day, month, year, time) :
      day \in DayTokens, month \in MonthTokens, year \in YearTokens, time \in TimeTokens }
    \cup { SpacedDate(year, time, month, day) :
             day \in DayTokens, month \in MonthTokens, year \in YearTokens, time \in TimeTokens }

\* timestamps, in seconds: the days 0..MaxClock and some later days (the 10th and
\* the last day of January 1970, 29 February and 31 December 2000, the day
\* before that of MAX_TIME), each at several times of day
Timestamps ==
  { day * 86400 + secs :
      day \in (0..MaxClock) \cup {9, 30, 11016, 11322, 24854},
      secs \in {0, 1, 59, 60, 3599, 3600, 11655, 36000, 43200, 86399} }

MaxPathLen == 4

\* the paths given to defaultPath
Str_slash_a == <<"/", "a">>
Str_slash_a_slash_b == <<"/", "a", "/", "b">>

PathsGiven == StringsUpTo({"/", "a"}, MaxPathLen) \cup {Str_slash_a_slash_b}

InitCodec ==
  /\ synchronous = TRUE
  /\ rejectPublicSuffixes = TRUE
  /\ enableLooseMode = FALSE
  /\ idx = {}
  /\ cookiesCreated = 0
  /\ clock = 0
  /\ last \in { [op |-> "call", fn |-> "parseDate", str |-> str] : str \in DateStrings }
               \cup { [op |-> "call", fn |-> "formatDate", date |-> Date(t)] : t \in Timestamps }
               \cup { [op |-> "call", fn |-> "defaultPath", path |-> path] : path \in PathsGiven }
  /\ inFlight = <<>>

\* the instant Date.UTC(year, month, day, hour, minutes, seconds) of the fields
\* found, as its day (counted from 1970-01-01) and its second of that day: the
\* years from 1601 on are beyond what a count of seconds can hold here
parseDateInstant(f) ==
  IF f.failed THEN Null
  ELSE <<DaysFromCivil(f.year[2], f.month[2]) + f.day[2] - 1,
         f.hour[2] * 3600 + f.minutes[2] * 60 + f.seconds[2]>>

\* parseDate(str): result is Null where it returns undefined
ParseDate ==
  /\ last.op = "call" /\ last.fn = "parseDate"
  /\ last' = [op |-> "parseDate", str |-> last.str,
              result |-> parseDateInstant(parseDateFields(last.str))]
  /\ UNCHANGED <<inFlight, synchronous, rejectPublicSuffixes, enableLooseMode, idx, cookiesCreated, clock>>

\* formatDate(date)
FormatDate ==
  /\ last.op = "call" /\ last.fn = "formatDate"
  /\ last' = [op |-> "formatDate", date |-> last.date, result |-> formatDate(last.date)]
  /\ UNCHANGED <<inFlight, synchronous, rejectPublicSuffixes, enableLooseMode, idx, cookiesCreated, clock>>

\* defaultPath(path)
DefaultPath ==
  /\ last.op = "call" /\ last.fn = "defaultPath"
  /\ last' = [op |-> "defaultPath", path |-> last.path, result |-> defaultPath(last.path)]
  /\ UNCHANGED <<inFlight, synchronous, rejectPublicSuffixes, enableLooseMode, idx, cookiesCreated, clock>>

NextCodec == ParseDate \/ FormatDate \/ DefaultPath

SpecCodec == InitCodec /\ [][NextCodec]_vars

---------------------------------------------------------------------------
(* Properties of getCookies and setCookie, stated over the last call *)

IsGet == last.op = "getCookies"
IsSet == last.op = "setCookie"

\* canonical_domain(request host) of the last call
RequestHost == canonicalDomain(last.context.hostname)

\* the last get delivered the stored cookie c
Returned(c) ==
  \E i \in 1..Len(last.cookies) :
    SameIdentity(last.cookies[i], c) /\ last.cookies[i].value = c.value

\* the name=value pairs of a Cookie header
HeaderPairs(header) == { Trim(pair) : pair \in Range(Split(header, ";")) }

Contains(str, sub) == IndexOf(str, sub) # -1

\* C1: getCookies delivers a cookie only if its host scope holds: a hostOnly
\* cookie's domain is the canonical request host, any other cookie's domain
\* domain-matches it.  So a cookie set without Domain from b.c is never
\* delivered for a.b.c, and a cookie stored with Domain=b.c (set from a.b.c) is
\* delivered for b.c.
C1_HostScope ==
  IsGet =>
    /\ \A i \in 1..Len(last.cookies) :
         IF last.cookies[i].hostOnly = True3
         THEN last.cookies[i].domain = RequestHost
         ELSE domainMatch(RequestHost, last.cookies[i].domain, True3) = True3
    /\ RequestHost = Host_abc =>
         \A i \in 1..Len(last.cookies) :
           ~(last.cookies[i].hostOnly = True3 /\ last.cookies[i].domain = Host_bc)
    /\ RequestHost = Host_bc =>
         \A c \in last.store0 : (c.hostOnly = False3 /\ c.domain = Host_bc) => Returned(c)

\* a get for a.b.c to which the store hands a host-only cookie of b.c and the
\* cookie set with Domain=b.c: only the latter is delivered
C1_Witness ==
  /\ IsGet
  /\ RequestHost = Host_abc
  /\ \E c \in Range(last.found) : c.hostOnly = True3 /\ c.domain = Host_bc
  /\ Len(last.cookies) = 1
  /\ last.cookies[1].key = <<"d">>
  /\ last.cookies[1].hostOnly = False3
  /\ last.cookies[1].domain = Host_bc

\* C8: every cookie setCookie accepts that came without a domain is stored with
\* hostOnly true and with the canonical request host as its domain.
C8_NoDomainIsHostOnly ==
  (IsSet /\ last.error = NoError /\ last.given[1].domain = Null) =>
    /\ last.cookie[1] \in idx
    /\ last.cbCookie = last.cookie
    /\ last.cookie[1].hostOnly = True3
    /\ last.cookie[1].domain = RequestHost

\* a cookie without Domain set from the hostname B.C is stored for b.c
C8_Witness ==
  /\ IsSet
  /\ last.error = NoError
  /\ last.given[1].domain = Null
  /\ last.context.hostname = Host_BC
  /\ last.cookie[1] \in idx
  /\ last.cookie[1].domain = Host_bc
  /\ last.cookie[1].hostOnly = True3

\* C9: every cookie setCookie accepts and stores with hostOnly true, a record
\* that came with a domain and hostOnly true included, has the canonical
\* request host as its stored domain.
C9_HostOnlyIsRequestHost ==
  (IsSet /\ last.error = NoError /\ last.cookie[1].hostOnly = True3) =>
    last.cookie[1].domain = RequestHost

\* C10: on a jar that rejects public suffixes no stored cookie's domain is a
\* public suffix, with or without a Domain attribute.
C10_NoPublicSuffixStored ==
  rejectPublicSuffixes => \A c \in idx : getPublicSuffix(canonicalDomain(c.domain)) # Null

---------------------------------------------------------------------------
(* Properties checked under SpecFlags *)

\* the effective secure flag of the last get: options.secure when supplied,
\* else whether the scheme is https or wss
EffectiveSecure ==
  IF last.options.secure # Null THEN last.options.secure = True3
  ELSE last.context.protocol \in { Proto_https, Proto_wss }

\* C2: when the effective secure flag is false no secure cookie is among the
\* cookies getCookies delivers, in the header of getCookieString or in the
\* strings of getSetCookieStrings.
C2_SecureNeedsSecure ==
  (IsGet /\ ~EffectiveSecure) =>
    /\ \A i \in 1..Len(last.cookies) : ~last.cookies[i].secure
    /\ \A c \in last.store0 : c.secure => cookieString(c) \notin HeaderPairs(last.header)
    /\ \A i \in 1..Len(last.strings) :
         ~Contains(last.strings[i], <<";"," ","S","e","c","u","r","e">>)

\* a get for http://b.c/ with no secure option, to which the store hands the
\* Secure cookie set from https://b.c/: it is not delivered
C2_Witness ==
  /\ IsGet
  /\ last.context = Url_bc
  /\ last.options = NoGetOptions
  /\ \E c \in Range(last.found) : c.secure /\ c.path = Path_root /\ c.domain = Host_bc
  /\ \A i \in 1..Len(last.cookies) : ~last.cookies[i].secure

\* C3: with http false no httpOnly cookie is among the cookies delivered, in
\* the header or in the strings; with http not supplied the stored httpOnly
\* cookies of the request's scope are delivered.
C3_HttpOnlyNeedsHttp ==
  IsGet =>
    /\ last.options.http = False3 =>
         /\ \A i \in 1..Len(last.cookies) : ~last.cookies[i].httpOnly
         /\ \A c \in last.store0 :
              c.httpOnly => cookieString(c) \notin HeaderPairs(last.header)
         /\ \A i \in 1..Len(last.strings) :
              ~Contains(last.strings[i], <<";"," ","H","t","t","p","O","n","l","y">>)
    /\ last.options.http = Null =>
         \A c \in last.store0 :
           (c.httpOnly /\ c.domain = RequestHost /\ c.path = Path_root
              /\ (c.secure => EffectiveSecure))
             => Returned(c)

\* a get with http false to which the store hands an httpOnly cookie: it is not
\* delivered
C3_Witness ==
  /\ IsGet
  /\ last.options.http = False3
  /\ \E c \in Range(last.found) : c.httpOnly /\ c.domain = RequestHost /\ ~Returned(c)

\* C4: a setCookie with http false whose cookie is httpOnly, or whose cookie
\* would replace a stored httpOnly cookie, fails with the http-only error (the
\* callback receives it, or null and no cookie under ignoreError) and leaves
\* the store as it was.
C4_NonHttpKeepsHttpOnly ==
  (IsSet /\ last.options.http = False3 /\ last.given # NoCookie) =>
    ((last.cookie[1].httpOnly
        \/ \E old \in last.store0 : SameIdentity(old, last.cookie[1]) /\ old.httpOnly)
       => /\ last.error \in { HttpOnlyError, OldHttpOnlyError }
          /\ last.cbCookie = NoCookie
          /\ last.cbErr = (IF last.options.ignoreError THEN NoError ELSE last.error)
          /\ idx = last.store0)

\* a setCookie with http false of a cookie that is not httpOnly onto a stored
\* httpOnly cookie: it fails and the stored cookie stays
C4_Witness ==
  /\ IsSet
  /\ last.options.http = False3
  /\ last.error = OldHttpOnlyError
  /\ ~last.given[1].httpOnly
  /\ \E old \in idx :
       old.httpOnly /\ old.key = last.given[1].key /\ old.value # last.given[1].value

---------------------------------------------------------------------------
(* Properties checked under SpecTime *)

\* C5: when setCookie accepts a cookie whose (domain, path, key) is that of a
\* stored cookie, the store then holds one cookie of that identity: it has the
\* later cookie's value and attributes, the first one's creation and
\* creationIndex, and the time of the later set as its lastAccessed.
C5_ReplaceKeepsCreation ==
  (IsSet /\ last.error = NoError) =>
    \A old \in last.store0 :
      SameIdentity(old, last.cookie[1]) =>
        /\ { c \in idx : SameIdentity(c, old) } = { last.cookie[1] }
        /\ last.cookie[1].value = last.given[1].value
        /\ last.cookie[1].expires = last.given[1].expires
        /\ last.cookie[1].maxAge = last.given[1].maxAge
        /\ last.cookie[1].secure = last.given[1].secure
        /\ last.cookie[1].httpOnly = last.given[1].httpOnly
        /\ last.cookie[1].extensions = last.given[1].extensions
        /\ last.cookie[1].creation = old.creation
        /\ last.cookie[1].creationIndex = old.creationIndex
        /\ last.cookie[1].lastAccessed = last.now

\* a cookie set onto one of the same identity that was set at an earlier time
\* and with another value
C5_Witness ==
  /\ IsSet
  /\ last.error = NoError
  /\ \E old \in last.store0 :
       /\ SameIdentity(old, last.cookie[1])
       /\ old.value # last.cookie[1].value
       /\ getTime(old.creation) < getTime(last.now)
       /\ old.creationIndex < last.given[1].creationIndex
       /\ last.cookie[1] \in idx

\* the order of cookieCompare: the longer path first, then the earlier creation
\* (none counts as MAX_TIME), then the lower creationIndex
ComesBefore(a, b) ==
  LET aLen == IF Truthy(a.path) THEN Len(a.path) ELSE 0
      bLen == IF Truthy(b.path) THEN Len(b.path) ELSE 0
      aTime == IF a.creation # Null THEN getTime(a.creation) ELSE MAX_TIME
      bTime == IF b.creation # Null THEN getTime(b.creation) ELSE MAX_TIME
  IN  \/ aLen > bLen
      \/ aLen = bLen /\ aTime < bTime
      \/ aLen = bLen /\ aTime = bTime /\ a.creationIndex <= b.creationIndex

Ordered(cookies) ==
  \A i, j \in 1..Len(cookies) : i < j => ComesBefore(cookies[i], cookies[j])

\* the cookies rendered as a Cookie header in the order given
Rendered(cookies) ==
  Join([i \in 1..Len(cookies) |-> cookieString(cookies[i])], <<";", " ">>)

\* C6: the list getCookies delivers, unless options.sort is false, and the
\* cookies in the header of getCookieString, always, are in the order of
\* cookieCompare.  With "a=1; Path=/x" and "a=2; Path=/" stored for b.c the
\* header for /x/y is "a=1; a=2".
C6_Ordered ==
  IsGet =>
    /\ last.options.sort # False3 => Ordered(last.cookies)
    /\ \E inOrder \in Orderings(Range(last.cookies)) :
         Ordered(inOrder) /\ last.header = Rendered(inOrder)
    /\ { <<c.key, c.value, c.path>> : c \in last.store0 }
         = { << <<"a">>, <<"1">>, <<"/","x">> >>, << <<"a">>, <<"2">>, <<"/">> >> }
       => last.header = <<"a","=","1",";"," ","a","=","2">>

\* a get with sort false that delivers the cookie of path / before the cookie
\* of path /x, as the store handed them over; the header has them in order
C6_Witness ==
  /\ IsGet
  /\ last.options.sort = False3
  /\ Len(last.cookies) = 2
  /\ last.cookies[1].path = <<"/">>
  /\ last.cookies[2].path = <<"/","x">>
  /\ last.header = <<"a","=","1",";"," ","a","=","2">>

---------------------------------------------------------------------------
(* Properties checked under SpecExpiry *)

\* expiry_time() <= now for the last get's now
ExpiredAtRequest(c) ==
  NumLeq(expiryTime(c, Null, last.req.now), Num(getTime(last.req.now)))

---------------------------------------------------------------------------
(* Properties checked under SpecPolicy *)

\* the cookie the last setCookie was about carries a domain whose canonical
\* form has no registrable parent
GivenPublicSuffix ==
  /\ IsSet /\ last.given # NoCookie
  /\ Truthy(last.given[1].domain)
  /\ getPublicSuffix(canonicalDomain(last.given[1].domain)) = Null

\* C11: on a jar that rejects public suffixes, a setCookie of a cookie whose
\* canonical domain has no registrable parent fails with the public-suffix
\* error for every request host, the hosts that do not domain-match it and
\* the host equal to it included, and stores nothing; on a jar that does not,
\* no setCookie fails with the public-suffix error.
C11_PublicSuffixRejected ==
  /\ (GivenPublicSuffix /\ rejectPublicSuffixes) =>
        /\ last.error = PublicSuffixError
        /\ last.cbCookie = NoCookie
        /\ idx = last.store0
  /\ (IsSet /\ ~rejectPublicSuffixes) => last.error # PublicSuffixError

\* Domain=c set from http://d/, which c does not domain-match, on a jar that
\* rejects public suffixes: the public-suffix error, not the mismatch
C11_Witness ==
  /\ GivenPublicSuffix /\ rejectPublicSuffixes
  /\ last.context = Url_d
  /\ last.error = PublicSuffixError

\* C12: the domain of every stored cookie is in lower case, has no leading
\* '.' and does not end in '.', whatever Set-Cookie string or Cookie record
\* and whatever request host it was set with.
C12_StoredDomainCanonical ==
  \A c \in idx :
    /\ c.domain = ToLowerCase(c.domain)
    /\ c.domain # <<>> => (c.domain[1] # "." /\ c.domain[Len(c.domain)] # ".")

\* C13: every cookie setCookie accepts is stored with a path that begins with
\* '/': the default path of the request path, with pathIsDefault true, when
\* the cookie came without a path or with one that does not begin with '/',
\* and the path it came with otherwise.
C13_StoredPathAbsolute ==
  /\ \A c \in idx : c.path # Null /\ c.path # <<>> /\ c.path[1] = "/"
  /\ (IsSet /\ last.error = NoError) =>
        LET given == last.given[1]
            stored == last.cookie[1]
        IN  /\ stored \in idx
            /\ IF ~Truthy(given.path) \/ given.path[1] # "/"
               THEN /\ stored.path = defaultPath(last.context.pathname)
                    /\ stored.pathIsDefault = True3
               ELSE stored.path = given.path

\* a record with the path x set from http://b.c/x/y: stored with the path /x
C13_Witness ==
  /\ IsSet /\ last.error = NoError
  /\ last.given[1].path = <<"x">>
  /\ last.context = Url_bc_xy
  /\ last.cookie[1] \in idx
  /\ last.cookie[1].path = <<"/", "x">>
  /\ last.cookie[1].pathIsDefault = True3

\* the policy failures of setCookie
PolicyErrors ==
  {ParseError, PublicSuffixError, DomainMismatchError, HttpOnlyError, OldHttpOnlyError}

\* C14: when setCookie fails for a policy reason (the string does not parse,
\* the domain is a public suffix, the domain is not the host's, the cookie is
\* httpOnly or would replace an httpOnly one from a non-HTTP API) its callback
\* receives the error, or null and no cookie under ignoreError, and the store
\* is as it was before the call.
C14_FailureLeavesStore ==
  (IsSet /\ last.error # NoError) =>
    /\ last.error \in PolicyErrors
    /\ last.cbErr = (IF last.options.ignoreError THEN NoError ELSE last.error)
    /\ last.cbCookie = NoCookie
    /\ idx = last.store0

\* every policy failure happens, with and without ignoreError, on a store that
\* holds a cookie
FailedWith(err, ignore) ==
  /\ IsSet /\ last.error = err /\ last.options.ignoreError = ignore

\* the replacement of a stored httpOnly cookie from a non-HTTP API under
\* ignoreError: null and no cookie are delivered and the stored cookie stays
C14_Witness ==
  /\ FailedWith(OldHttpOnlyError, TRUE)
  /\ last.cbErr = NoError /\ last.cbCookie = NoCookie
  /\ idx # {} /\ idx = last.store0

---------------------------------------------------------------------------
(* Properties checked under SpecJson *)

\* a cookie without its creationIndex
WithoutIndex(c) == [f \in DOMAIN c \ {"creationIndex"} |-> c[f]]

\* the jar the last deserialize or clone made holds the cookies of the jar it
\* was made from, creationIndex aside, and has its setting
SameJar ==
  /\ { WithoutIndex(c) : c \in last.jar.idx } = { WithoutIndex(c) : c \in last.source.idx }
  /\ last.jar.rejectPublicSuffixes = last.source.rejectPublicSuffixes

\* C15: clone completes with a jar that holds the cookies of the jar it was
\* called on, creationIndex aside, and has its rejectPublicSuffixes setting,
\* into a fresh store and into a store passed in alike; the store of the jar it
\* was called on is as before.
C15_CloneIsSameJar ==
  last.op = "clone" => (last.outcome = "ok" /\ SameJar /\ idx = last.store0)

\* C16: deserialize of what serialize has delivered completes with a jar that
\* holds the cookies of the serialized jar, creationIndex aside, and has its
\* rejectPublicSuffixes setting; serialize leaves the store as it was.
C16_RoundTrip ==
  /\ last.op = "deserialize" => (last.outcome = "ok" /\ SameJar)
  /\ last.op = "serialize" => (last.error = NoError /\ idx = last.store0)

\* a jar of two cookies, one of them with an expiry date, set at an earlier
\* time than that of the round trip
C16_Witness ==
  /\ last.op = "deserialize" /\ last.outcome = "ok"
  /\ Cardinality(last.jar.idx) = 2
  /\ \E c \in last.jar.idx : c.expires = Date(0) /\ c.creation # last.now
  /\ \E c \in last.jar.idx : c.creationIndex > MaxCreated

---------------------------------------------------------------------------
(* Properties checked under SpecPure *)

IsDomainMatch == last.op = "domainMatch"

\* a string that canonicalDomain leaves as it is
IsCanonical(str) == canonicalDomain(str) = str

\* dom is a proper suffix of host and the character of host before it is '.'
IsDotSuffix(host, dom) ==
  /\ Len(dom) < Len(host)
  /\ SubSeq(host, Len(host) - Len(dom) + 1, Len(host)) = dom
  /\ host[Len(host) - Len(dom)] = "."

\* C17: for canonical strings host and dom, domainMatch(host, dom) is true
\* exactly if host is dom, or host is no IP literal and dom is a proper suffix
\* of host that a '.' precedes, also where dom occurs in host more than once.
C17_DomainMatchIsDotSuffix ==
  (IsDomainMatch /\ IsCanonical(last.str) /\ IsCanonical(last.domStr)) =>
    (last.result = True3 <=>
       (last.str = last.domStr \/ (~isIP(last.str) /\ IsDotSuffix(last.str, last.domStr))))

\* C18: domainMatch(host, dom) is not true when dom is the empty string,
\* whatever the host, the empty one included, and whether or not it
\* canonicalises.
C18_EmptyDomainNeverMatches ==
  (IsDomainMatch /\ last.domStr = <<>>) => last.result # True3

IsCookieCompare == last.op = "cookieCompare"

\* the sign of a number
Sign(n) == IF n < 0 THEN -1 ELSE IF n > 0 THEN 1 ELSE 0

\* the length of a cookie's path, none counting as 0
PathLength(cookie) == IF Truthy(cookie.path) THEN Len(cookie.path) ELSE 0

\* C19, as stated: cookieCompare is a total order: compare(a, b) and
\* compare(b, a) have opposite signs, compare(a, b) is 0 only for cookies of
\* equal path length, creation and creationIndex, a before b and b before c
\* put a before c, and cookies of equal path length and creation are ordered
\* by ascending creationIndex.
C19_CookieCompareTotalOrder ==
  IsCookieCompare =>
    /\ Sign(last.ab) = 0 - Sign(last.ba)
    /\ last.ab = 0 =>
          /\ PathLength(last.a) = PathLength(last.b)
          /\ last.a.creation = last.b.creation
          /\ last.a.creationIndex = last.b.creationIndex
    /\ (last.ab <= 0 /\ last.bc <= 0) => last.ac <= 0
    /\ (last.ab < 0 /\ last.bc < 0) => last.ac < 0
    /\ (PathLength(last.a) = PathLength(last.b) /\ last.a.creation = last.b.creation) =>
          Sign(last.ab) = Sign(last.a.creationIndex - last.b.creationIndex)

\* the creation time of a cookie, a missing one counting as MAX_TIME
CreationTime(cookie) ==
  IF cookie.creation # Null THEN getTime(cookie.creation) ELSE MAX_TIME

\* C19, with a missing creation counting as MAX_TIME: compare(a, b) and
\* compare(b, a) have opposite signs, compare(a, b) is 0 only for cookies of
\* equal path length, creation time and creationIndex, a before b and b before
\* c put a before c, and cookies of equal path length and creation time are
\* ordered by ascending creationIndex.
C19_CookieCompareOrdersByTime ==
  IsCookieCompare =>
    /\ Sign(last.ab) = 0 - Sign(last.ba)
    /\ last.ab = 0 =>
          /\ PathLength(last.a) = PathLength(last.b)
          /\ CreationTime(last.a) = CreationTime(last.b)
          /\ last.a.creationIndex = last.b.creationIndex
    /\ (last.ab <= 0 /\ last.bc <= 0) => last.ac <= 0
    /\ (last.ab < 0 /\ last.bc < 0) => last.ac < 0
    /\ (PathLength(last.a) = PathLength(last.b)
          /\ CreationTime(last.a) = CreationTime(last.b)) =>
          Sign(last.ab) = Sign(last.a.creationIndex - last.b.creationIndex)

\* a cookie without creation and one created at MAX_TIME, of one path length:
\* the creationIndex alone orders them, and a cookie of a longer path comes
\* before both
C19_Witness ==
  /\ IsCookieCompare
  /\ PathLength(last.a) > PathLength(last.b)
  /\ PathLength(last.b) = PathLength(last.c)
  /\ last.b.creation = Date(MAX_TIME) /\ last.c.creation = Null
  /\ last.b.creationIndex < last.c.creationIndex
  /\ last.ab < 0 /\ last.bc < 0 /\ last.ac < 0 /\ last.ba > 0

---------------------------------------------------------------------------
(* Properties checked under SpecSync *)

\* C20: every method of the synchronous facade throws on a store that is not
\* synchronous, the method not being run and the store left as it was; on a
\* synchronous store the method's completion is invoked, and the facade
\* returns its result or throws its error as it is.
C20_SyncFacade ==
  last.op = "sync" =>
    IF ~last.synchronous
    THEN /\ last.threw /\ last.thrown = NotSynchronousError
         /\ ~last.completed
         /\ idx = last.store0
    ELSE /\ last.completed
         /\ IF last.err # NoError
            THEN last.threw /\ last.thrown = last.err
            ELSE ~last.threw /\ last.returned = <<last.result>>


\* the jar operations: set, get (in its three forms), serialize and import
JarOperations == GetMethods \cup {"setCookie", "serialize", "importCookies"}

\* the cookies of a serialized jar
SerializedCookies(serialized) == Range(serialized.cookies)

---------------------------------------------------------------------------
(* Properties of the counter Cookie.cookiesCreated, checked under SpecJson *)

\* the cookie of a jar that was made from an object of a serialized jar
MadeFrom(jar, obj, now) ==
  { c \in jar : WithoutIndex(c) = WithoutIndex(fromJSON(obj, now, 0)) }

\* C22: every construction of a Cookie takes the next value of one counter that
\* never decreases: the cookie Cookie.parse or new Cookie makes for a setCookie
\* call has the counter's next value as its creationIndex, and the cookies
\* deserialize makes have the next values in the order of the serialized
\* cookies array
C22_CreationIndexIncreases ==
  [][/\ cookiesCreated' >= cookiesCreated
     /\ (last' # last /\ last'.op = "setCookie" /\ last'.given # NoCookie) =>
           /\ cookiesCreated' = cookiesCreated + 1
           /\ last'.given[1].creationIndex = cookiesCreated'
     /\ (last' # last /\ last'.op = "deserialize" /\ last'.outcome = "ok") =>
           LET cookies == last.serialized.cookies
           IN  /\ cookiesCreated' = cookiesCreated + Len(cookies)
               /\ \A i \in 1..Len(cookies) :
                     \E c \in MadeFrom(last'.jar.idx, cookies[i], last'.now) :
                        c.creationIndex = cookiesCreated + i]_vars

\* a jar of two cookies deserialized after other cookies were constructed
C22_Witness ==
  /\ last.op = "deserialize" /\ last.outcome = "ok"
  /\ Cardinality(last.jar.idx) = 2
  /\ \E c \in last.jar.idx : c.creationIndex > 3

---------------------------------------------------------------------------
(* Properties checked under SpecGet *)

\* a getCookies call on the caller's store
IsGetOfStore == last.op = "getCookies" /\ "findError" \in DOMAIN last

\* C23: getCookies sets lastAccessed, on every cookie it returns, to the now of
\* its expiry check: options.now when given, the current time otherwise
C23_TouchedAtNow ==
  (IsGetOfStore /\ last.delivered) =>
    \A i \in 1..Len(last.cookies) : last.cookies[i].lastAccessed = last.req.now

\* a cookie without its lastAccessed
WithoutAccess(c) == [f \in DOMAIN c \ {"lastAccessed"} |-> c[f]]

\* C24: getCookies delivers an error only when the store's findCookies fails,
\* and that error; otherwise it delivers the cookies of the store's answer
\* that are in scope and have not expired, the others being dropped without
\* an error, whether the removals of the expired ones are done, have failed or
\* are still to complete
C24_OnlyFindErrors ==
  IsGetOfStore =>
    /\ last.error = last.findError
    /\ last.delivered = (last.findError = NoError)
    /\ last.delivered =>
          { WithoutAccess(last.cookies[i]) : i \in 1..Len(last.cookies) }
            = { WithoutAccess(c) :
                  c \in { d \in Range(last.found) : matchingCookie(d, last.req, last.now) } }

\* a list delivered without error, and not empty, although the removal of an
\* expired cookie has failed or is still to complete
C24_Witness ==
  /\ IsGetOfStore /\ last.delivered /\ last.error = NoError
  /\ last.cookies # <<>>
  /\ last.expired \ last.removed # {}


---------------------------------------------------------------------------
(* Properties checked under SpecCookie *)

\* C25: fromJSON(toJSON(cookie)), which is what clone() gives, equals the
\* cookie in every field but creationIndex
C25_JsonRoundTrip ==
  last.op = "Cookie.clone" => WithoutIndex(last.result) = WithoutIndex(last.cookie)

Str_MaxAge_attr == <<";"," ","M","a","x","-","A","g","e","=">>
Str_Domain_attr == <<";"," ","D","o","m","a","i","n","=">>

\* C26: toString() has '; Max-Age=' only when maxAge is a finite integer, and
\* '; Domain=' only when domain is present and hostOnly is not true
C26_ToStringAttributes ==
  last.op = "Cookie.toString" =>
    /\ Contains(last.result, Str_MaxAge_attr) => IsNum(last.cookie.maxAge)
    /\ Contains(last.result, Str_Domain_attr) =>
          (Truthy(last.cookie.domain) /\ last.cookie.hostOnly # True3)

\* a maxAge that is a finite integer <= 0
FiniteNotPositive(maxAge) == IsNum(maxAge) /\ maxAge[2] <= 0

\* C27: validate() returns false when maxAge is a finite integer <= 0; with any
\* other maxAge (absent, a finite integer > 0, Infinity or -Infinity) it
\* returns what it returns for the same cookie without maxAge
C27_ValidateMaxAge ==
  last.op = "Cookie.validate" =>
    IF FiniteNotPositive(last.cookie.maxAge) THEN last.result = FALSE
    ELSE last.result = validate([last.cookie EXCEPT !.maxAge = Null])

\* a character outside \x20-\x3A and \x3C-\x7E
OutsidePathValue(ch) == ch = ";" \/ ch \in CONTROL_CHARS

\* C28: validate() returns false whenever path is present and has a character
\* outside \x20-\x3A and \x3C-\x7E
C28_ValidatePath ==
  (last.op = "Cookie.validate" /\ last.cookie.path # Null
     /\ \E i \in 1..Len(last.cookie.path) : OutsidePathValue(last.cookie.path[i])) =>
    last.result = FALSE

\* C29: validate() returns false when the value has a character that is no
\* cookie-octet; a value that is empty or of cookie-octets only is accepted:
\* validate() returns what it returns for the same cookie with the value '1'
C29_ValidateValue ==
  last.op = "Cookie.validate" =>
    IF \E i \in 1..Len(last.cookie.value) : ~COOKIE_OCTET(last.cookie.value[i])
    THEN last.result = FALSE
    ELSE last.result = validate([last.cookie EXCEPT !.value = Value_1])

\* C30: for a cookie whose maxAge is a finite integer <= 0, TTL() is 0 and
\* expiryDate() is the epoch, whatever expires, creation and now are; and
\* whenever maxAge is present, expires changes neither
C30_MaxAgeExpired ==
  /\ (last.op = "Cookie.TTL" /\ FiniteNotPositive(last.cookie.maxAge)) => last.result = Num(0)
  /\ (last.op = "Cookie.expiryDate" /\ FiniteNotPositive(last.cookie.maxAge)) =>
        last.result = Date(0)
  /\ (last.op = "Cookie.TTL" /\ last.cookie.maxAge # Null) =>
        \A expires \in {PosInf, Date(0), Date(1)} :
           last.result = TTL([last.cookie EXCEPT !.expires = expires], last.now, Date(clock))
  /\ (last.op = "Cookie.expiryDate" /\ last.cookie.maxAge # Null) =>
        \A expires \in {PosInf, Date(0), Date(1)} :
           last.result = expiryDate([last.cookie EXCEPT !.expires = expires], last.now,
                                    Date(clock))

\* TTL(now) of a cookie parsed from Max-Age=0 with an Expires in the future
C30_Witness ==
  /\ last.op = "Cookie.TTL" /\ last.result = Num(0)
  /\ last.cookie.maxAge = Num(0) /\ IsDate(last.cookie.expires)
  /\ last.now # Null /\ getTime(last.cookie.expires) > getTime(last.now)

---------------------------------------------------------------------------
(* Properties checked under SpecCodec *)

\* the date-tokens of a string: what lies between the delimiters, trimmed, the
\* empty ones left out
RECURSIVE NonEmptyTrimmed(_)
NonEmptyTrimmed(tokens) ==
  IF tokens = <<>> THEN <<>>
  ELSE (IF Trim(Head(tokens)) = <<>> THEN <<>> ELSE <<Trim(Head(tokens))>>)
       \o NonEmptyTrimmed(Tail(tokens))

NoTokens == [time |-> Null, day |-> Null, month |-> Null, year |-> Null]

\* each token given to the first field still unset that it matches, in the
\* order time, day-of-month, month, year
RECURSIVE AssignTokens(_, _)
AssignTokens(found, tokens) ==
  IF tokens = <<>> THEN found
  ELSE LET token == Head(tokens)
           next == IF found.time = Null /\ MatchTIME(token) THEN [found EXCEPT !.time = token]
                   ELSE IF found.day = Null /\ MatchDAY_OF_MONTH(token)
                   THEN [found EXCEPT !.day = token]
                   ELSE IF found.month = Null /\ MatchMONTH(token) # -1
                   THEN [found EXCEPT !.month = token]
                   ELSE IF found.year = Null /\ MatchYEAR(token)
                   THEN [found EXCEPT !.year = token]
                   ELSE found
       IN  AssignTokens(next, Tail(tokens))

\* the year after the two-digit adjustment
AdjustedYear(n) == IF n >= 70 /\ n <= 99 THEN n + 1900 ELSE IF n <= 69 THEN n + 2000 ELSE n

\* the numbers the four tokens denote
DateNumbers(found) ==
  [hour |-> ParseDigits(Runs(found.time)[1]), minutes |-> ParseDigits(Runs(found.time)[3]),
   seconds |-> ParseDigits(Runs(found.time)[5]), day |-> ParseDigits(Runs(found.day)[1]),
   month |-> MatchMONTH(found.month), year |-> AdjustedYear(ParseDigits(found.year))]

\* the date the tokens stand for: Null when a field is unset or out of range,
\* else the day and the second of the day of the UTC instant
DateOfTokens(found) ==
  IF found.time = Null \/ found.day = Null \/ found.month = Null \/ found.year = Null
  THEN Null
  ELSE LET n == DateNumbers(found)
       IN  IF n.hour > 23 \/ n.minutes > 59 \/ n.seconds > 59 \/ n.day < 1 \/ n.day > 31
              \/ n.year < 1601
           THEN Null
           ELSE <<DaysFromCivil(n.year, n.month) + n.day - 1,
                  n.hour * 3600 + n.minutes * 60 + n.seconds>>

\* C31: parseDate returns nothing when, each token being given to the first
\* unset field it matches in the order time, day-of-month, month, year, a field
\* is left unset, an hour is above 23, a minute or a second above 59, the day
\* outside 1..31 or the adjusted year below 1601; else it returns the UTC
\* instant of the four fields
C31_ParseDate ==
  last.op = "parseDate" =>
    last.result = DateOfTokens(AssignTokens(NoTokens, NonEmptyTrimmed(SplitDelim(last.str))))

\* a date of the year 1601 parsed
C31_Witness ==
  /\ last.op = "parseDate" /\ last.result # Null
  /\ Contains(last.str, <<"1","6","0","1">>)

\* the RFC 1123 form of a date: Ddd, DD Mon YYYY HH:MM:SS GMT
Rfc1123(date) ==
  LET civil == CivilFromDays(getTime(date) \div 86400)
      secs == getTime(date) % 86400
  IN  NUM_TO_DAY[((getTime(date) \div 86400 + 4) % 7) + 1] \o <<",", " ">>
        \o TwoDigits(civil.date) \o <<" ">> \o NUM_TO_MONTH[civil.month + 1] \o <<" ">>
        \o FourDigits(civil.year) \o <<" ">> \o TwoDigits(secs \div 3600) \o <<":">>
        \o TwoDigits((secs % 3600) \div 60) \o <<":">> \o TwoDigits(secs % 60)
        \o <<" ", "G", "M", "T">>

Str_epoch ==
  <<"T","h","u",","," ","0","1"," ","J","a","n"," ","1","9","7","0"," ",
    "0","0",":","0","0",":","0","0"," ","G","M","T">>

\* C32: formatDate returns exactly the RFC 1123 form of the date, the fields
\* zero-padded and a single space between them, and no other character; the
\* epoch gives "Thu, 01 Jan 1970 00:00:00 GMT"
C32_FormatDate ==
  last.op = "formatDate" =>
    /\ last.result = Rfc1123(last.date)
    /\ last.date = Date(0) => last.result = Str_epoch

\* the position (from 1) of the right-most '/' of a path that has one
RightMostSlash(p) == CHOOSE i \in 1..Len(p) : p[i] = "/" /\ \A j \in (i + 1)..Len(p) : p[j] # "/"


\* C33: defaultPath(p) is "/" when p is empty, does not start with '/' or has
\* its right-most '/' in front; otherwise it is p up to, and without, its
\* right-most '/'; it always begins with '/'
C33_DefaultPath ==
  last.op = "defaultPath" =>
    /\ last.result = IF last.path = <<>> \/ last.path[1] # "/" \/ RightMostSlash(last.path) = 1
                     THEN <<"/">>
                     ELSE SubSeq(last.path, 1, RightMostSlash(last.path) - 1)
    /\ last.result # <<>> /\ last.result[1] = "/"
    /\ last.path \in { <<>>, <<"a">>, <<"/">>, Str_slash_a } => last.result = <<"/">>
    /\ last.path = Str_slash_a_slash_b => last.result = Str_slash_a

\* defaultPath of a path with a directory: "/a/a" gives "/a"
C33_Witness ==
  /\ last.op = "defaultPath" /\ last.path = <<"/", "a", "/", "a">>
  /\ last.result = Str_slash_a

---------------------------------------------------------------------------
(* Specification SpecAsync: the jar on an asynchronous store.  A call        *)
(* returns when it has asked the store; the store completes each of its      *)
(* operations later, with an error or with an answer, and the jar's callback *)
(* then runs.  Calls are made while earlier ones wait for the store.         *)

\* the calls that may be made in one behaviour
MaxInFlight == 2

\* a call as inFlight holds it: the store operation it waits for (stage), the
\* cookie it is about, what findCookie answered, how often its callback has
\* been invoked and with what, whether it left by an exception, the number
\* of writes the store had done when it answered findCookie, the rank of the
\* call's write among the writes the store has done, and the error of the
\* store operation that failed
Called(method, stage, call) ==
  [method |-> method, stage |-> stage, context |-> call.context, options |-> call.options,
   now |-> Date(clock), cookie |-> NoCookie, oldCookie |-> NoCookie, wrote |-> "none",
   completions |-> 0, cbErr |-> NoError, cbResult |-> <<>>, threw |-> FALSE, sawWrites |-> 0,
   written |-> 0, storeErr |-> NoError]

\* the callback invoked with (err, result)
Invoked(f, err, result) ==
  [f EXCEPT !.stage = "done", !.completions = f.completions + 1, !.cbErr = err,
            !.cbResult = result]

\* a store error that options.ignoreError would swallow
StoreFailedIgnorable(f, err) ==
  [Invoked(f, Deliver(f.options, err), NoCookie) EXCEPT !.storeErr = err]

\* withCookie and next on an error of the store: if (error) return cb(error)
StoreFailed(f, err) == [Invoked(f, err, NoCookie) EXCEPT !.storeErr = err]

\* the number of writes the store has done
Writes == Cardinality({ i \in DOMAIN inFlight : inFlight[i].written > 0 })

\* setCookie up to its call of store.findCookie: the parse and the policy
\* checks, which fail with an error, and S5.3 step 6 and S5.2.4
setCookieChecked(reject, parsed, context, options) ==
  LET cookie == parsed.cookie
      host == canonicalDomain(context.hostname)
      scoped == ScopeCookie(cookie, host, context)
  IN  IF ~parsed.ok THEN [error |-> ParseError, cookie |-> NoCookie]
      ELSE IF reject /\ Truthy(cookie.domain) /\ getPublicSuffix(cdomain(cookie)) = Null
      THEN [error |-> PublicSuffixError, cookie |-> Some(cookie)]
      ELSE IF Truthy(cookie.domain) /\ ~Truthy3(domainMatch(host, cdomain(cookie), False3))
      THEN [error |-> DomainMismatchError, cookie |-> Some(cookie)]
      ELSE IF options.http = False3 /\ scoped.httpOnly
      THEN [error |-> HttpOnlyError, cookie |-> Some(scoped)]
      ELSE [error |-> NoError, cookie |-> Some(scoped)]

SetCookieCalledParsed(call, parsed, r) ==
  /\ inFlight' = Append(inFlight,
       IF r.error # NoError
       THEN Invoked(Called("setCookie", "done", call), Deliver(call.options, r.error), NoCookie)
       ELSE [Called("setCookie", "findCookie", call) EXCEPT !.cookie = r.cookie])
  /\ cookiesCreated' = IF parsed.constructed THEN cookiesCreated + 1 ELSE cookiesCreated
  /\ UNCHANGED <<synchronous, rejectPublicSuffixes, enableLooseMode, idx, clock, last>>

\* jar.setCookie(cookie, url, options, cb) returns: its callback has been
\* invoked with a parse or policy failure, or store.findCookie has been called
SetCookieCalled(call) ==
  /\ Len(inFlight) < MaxInFlight /\ cookiesCreated < MaxCreated
  /\ SetCookieCalledParsed(call, CookieGiven(call),
       setCookieChecked(rejectPublicSuffixes, CookieGiven(call), call.context, call.options))

FindCookieCompleted(i, err, r) ==
  /\ inFlight' = [inFlight EXCEPT ![i] =
       IF err # NoError THEN StoreFailed(@, err)
       ELSE IF r.error # NoError THEN Invoked(@, r.cbErr, NoCookie)
       ELSE [@ EXCEPT !.stage = r.wrote, !.wrote = r.wrote, !.cookie = r.cookie,
                      !.sawWrites = Writes,
                      !.oldCookie = findCookie(idx, inFlight[i].cookie[1].domain,
                                               inFlight[i].cookie[1].path,
                                               inFlight[i].cookie[1].key)]]
  /\ UNCHANGED <<synchronous, rejectPublicSuffixes, enableLooseMode, idx, cookiesCreated, clock,
                 last>>

\* the store completes the findCookie of call i, with err or with the cookie
\* it holds: withCookie runs and calls store.updateCookie or store.putCookie
FindCookieCompletes(i, err) ==
  /\ inFlight[i].stage = "findCookie"
  /\ FindCookieCompleted(i, err,
       withCookie(idx, inFlight[i].cookie[1],
                  findCookie(idx, inFlight[i].cookie[1].domain, inFlight[i].cookie[1].path,
                             inFlight[i].cookie[1].key),
                  inFlight[i].options,
                  IF inFlight[i].options.now # Null THEN inFlight[i].options.now
                  ELSE inFlight[i].now))

\* the store completes the putCookie or updateCookie of call i, with err or
\* having stored the cookie: `next` runs
WriteCompletes(i, err) ==
  /\ inFlight[i].stage \in {"putCookie", "updateCookie"}
  /\ idx' = IF err # NoError THEN idx
            ELSE IF inFlight[i].stage = "updateCookie"
            THEN updateCookie(idx, inFlight[i].oldCookie[1], inFlight[i].cookie[1])
            ELSE putCookie(idx, inFlight[i].cookie[1])
  /\ inFlight' = [inFlight EXCEPT ![i] =
       IF err # NoError THEN StoreFailed(@, err)
       ELSE [Invoked(@, NoError, @.cookie) EXCEPT !.written = Writes + 1]]
  /\ UNCHANGED <<synchronous, rejectPublicSuffixes, enableLooseMode, cookiesCreated, clock, last>>

\* jar.getCookies, getCookieString or getSetCookieStrings returns:
\* store.findCookies has been called
GetCookiesCalled(method, call) ==
  /\ Len(inFlight) < MaxInFlight
  /\ inFlight' = Append(inFlight, Called(method, "findCookies", call))
  /\ UNCHANGED <<synchronous, rejectPublicSuffixes, enableLooseMode, idx, cookiesCreated, clock,
                 last>>

FindCookiesCompleted(i, r) ==
  /\ idx' = r.store
  /\ inFlight' = [inFlight EXCEPT ![i] =
       IF r.err # NoError THEN Invoked(@, r.err, <<>>)
       ELSE Invoked(@, NoError,
                    IF @.method = "getCookieString" THEN CookieHeader(r.cookies)
                    ELSE IF @.method = "getSetCookieStrings" THEN SetCookieHeaders(r.cookies)
                    ELSE r.cookies)]
  /\ UNCHANGED <<synchronous, rejectPublicSuffixes, enableLooseMode, cookiesCreated, clock, last>>

\* the store completes the findCookies of call i, with err or with `found`: the
\* callback of getCookies runs (none of the cookies set here expires, so it
\* asks for no removal)
FindCookiesCompletes(i, err, found) ==
  /\ inFlight[i].stage = "findCookies"
  /\ FindCookiesCompleted(i,
       getCookiesOfStore(idx, err, found, {},
                         Request(inFlight[i].context, inFlight[i].options, inFlight[i].now),
                         inFlight[i].options, Date(clock)))

\* jar.serialize(cb) returns: store.getAllCookies has been called
SerializeCalled ==
  /\ Len(inFlight) < MaxInFlight
  /\ inFlight' = Append(inFlight,
                        Called("serialize", "getAllCookies", [context |-> Null, options |-> Null]))
  /\ UNCHANGED <<synchronous, rejectPublicSuffixes, enableLooseMode, idx, cookiesCreated, clock,
                 last>>

\* the store completes the getAllCookies of call i, with err or with `cookies`
GetAllCookiesCompletes(i, err, cookies) ==
  /\ inFlight[i].stage = "getAllCookies"
  /\ inFlight' = [inFlight EXCEPT ![i] =
       IF err # NoError THEN Invoked(@, err, <<>>)
       ELSE Invoked(@, NoError, serialize(rejectPublicSuffixes, cookies))]
  /\ UNCHANGED <<synchronous, rejectPublicSuffixes, enableLooseMode, idx, cookiesCreated, clock,
                 last>>

DeserializeCalledWith(blob, r) ==
  /\ cookiesCreated' = r.created
  /\ inFlight' = Append(inFlight,
       LET f == [Called("deserialize", "done", [context |-> Null, options |-> Null])
                   EXCEPT !.oldCookie = blob]
       IN  IF r.outcome = "throw" THEN [f EXCEPT !.threw = TRUE]
           ELSE IF r.outcome = "error" THEN Invoked(f, r.error, <<>>)
           ELSE Invoked(f, NoError, [rejectPublicSuffixes |-> r.rejectPublicSuffixes,
                                     idx |-> r.idx]))
  /\ UNCHANGED <<synchronous, rejectPublicSuffixes, enableLooseMode, idx, clock, last>>

\* CookieJar.deserialize(blob, cb): the jar it makes has a MemoryCookieStore of
\* its own, which is synchronous, so importCookies has run when the call
\* returns
DeserializeCalled(blob) ==
  /\ Len(inFlight) < MaxInFlight /\ cookiesCreated <= MaxCreated
  /\ DeserializeCalledWith(blob, deserialize(blob, NullObject, Date(clock), cookiesCreated))

InitAsync ==
  /\ synchronous = FALSE
  /\ rejectPublicSuffixes = TRUE
  /\ enableLooseMode = FALSE
  /\ idx = {}
  /\ cookiesCreated = 0
  /\ clock = 0
  /\ last = [op |-> "none"]
  /\ inFlight = <<>>

AsyncSets ==
  { SetString(Str_a1, Url_bc, NoSetOptions),
    SetString(Str_a2_path_root, Url_bc, IgnoreError),
    SetString(Str_h1_httponly, Url_bc, NoSetOptions),
    SetString(Str_h2, Url_bc, NonHttp),
    SetString(Str_x, Url_bc, NoSetOptions),
    SetString(Str_x, Url_bc, IgnoreError) }

AsyncGets == { Get(Url_bc, NoGetOptions) }

\* the errors of a store operation: none, or the store's
StoreErrors == {NoError, StoreError}

\* what is handed to deserialize: null, an object without a cookies array, and
\* what serialize delivers for the jar
Blobs ==
  { NullObject, [type |-> "Object"] }
    \cup { serialize(rejectPublicSuffixes, cookies) : cookies \in getAllCookies(idx) }

\* the calls that wait for this operation of the store
Waiting(stage) == { i \in DOMAIN inFlight : inFlight[i].stage = stage }

NextAsync ==
  \/ Tick
  \/ \E call \in AsyncSets : SetCookieCalled(call)
  \/ \E i \in Waiting("findCookie") : \E err \in StoreErrors : FindCookieCompletes(i, err)
  \/ \E i \in Waiting("putCookie") \cup Waiting("updateCookie") : \E err \in StoreErrors :
        WriteCompletes(i, err)
  \/ \E method \in GetMethods : \E call \in AsyncGets : GetCookiesCalled(method, call)
  \/ \E i \in Waiting("findCookies") : \E err \in StoreErrors :
        \E found \in FindCookiesAnswers(idx, canonicalDomain(inFlight[i].context.hostname),
                                        Request(inFlight[i].context, inFlight[i].options,
                                                inFlight[i].now).path) :
           FindCookiesCompletes(i, err, found)
  \/ SerializeCalled
  \/ \E i \in Waiting("getAllCookies") : \E err \in StoreErrors :
        \E cookies \in getAllCookies(idx) : GetAllCookiesCompletes(i, err, cookies)
  \/ \E blob \in Blobs : DeserializeCalled(blob)

SpecAsync == InitAsync /\ [][NextAsync]_vars

\* a store that invokes the callback of each of its operations: no call waits
\* for the store for ever.  (A findCookies can complete with an error exactly
\* when it can complete with an answer, so its failing completion stands for
\* both.)
StoreCompletes ==
  \/ \E i \in Waiting("findCookie") : \E err \in StoreErrors : FindCookieCompletes(i, err)
  \/ \E i \in Waiting("putCookie") \cup Waiting("updateCookie") : \E err \in StoreErrors :
        WriteCompletes(i, err)
  \/ \E i \in Waiting("findCookies") : FindCookiesCompletes(i, StoreError, <<>>)
  \/ \E i \in Waiting("getAllCookies") : \E err \in StoreErrors :
        \E cookies \in getAllCookies(idx) : GetAllCookiesCompletes(i, err, cookies)

SpecAsyncFair == SpecAsync /\ WF_vars(StoreCompletes)

---------------------------------------------------------------------------
(* Specification SpecRead: a cookie set and asked for again.  Set-Cookie     *)
(* strings with no attribute, and with a Domain attribute in several         *)
(* spellings, are set and the same URL is asked for its cookies.             *)

ReadSets ==
  { SetString(Str_a1, Url_bc, NoSetOptions),
    SetString(Str_a1, Url_bc_xy, NoSetOptions),
    SetString(Str_h2, Url_abc, NoSetOptions),
    SetString(Str_d3_domain_bc, Url_bc, NoSetOptions),
    SetString(Str_d3_domain_bc, Url_abc, NoSetOptions),
    SetString(Str_a7_domain_dot_BC, Url_bc, NoSetOptions),
    SetString(Str_a9_domain_dots_bc, Url_bc, NoSetOptions),
    SetString(Str_a4_domain_c, Url_bc, NoSetOptions) }

ReadGets ==
  { Get(Url_bc, NoGetOptions), Get(Url_bc_xy, NoGetOptions), Get(Url_abc, NoGetOptions) }

NextRead ==
  \/ \E call \in ReadSets : SetCookie(call)
  \/ \E call \in ReadGets : \E found \in Answers(call) : GetCookies(call, found)

SpecRead == Init /\ [][NextRead]_vars

---------------------------------------------------------------------------
(* Properties of setCookie followed by getCookies, and of the store's part *)

\* a setCookie call that stored a cookie whose Max-Age is a finite number
\* above zero
AcceptedWithMaxAge ==
  /\ last.op = "setCookie" /\ last.error = NoError /\ last.cbCookie # NoCookie
  /\ IsNum(last.cbCookie[1].maxAge) /\ last.cbCookie[1].maxAge[2] > 0

\* C34: when setCookie stores a cookie with a finite Max-Age of n > 0 seconds
\* at time t, a getCookies for a URL the cookie matches, at a time from t up to
\* but excluding t + n, returns the cookie and leaves it in the store, also
\* when the setCookie replaced an older cookie of the same domain, path and key
C34_AliveForMaxAge ==
  [][ ( /\ AcceptedWithMaxAge
        /\ last' # last /\ last'.op = "getCookies"
        /\ InScope(last.cbCookie[1], last'.req)
        /\ getTime(last.now) <= getTime(last'.req.now)
        /\ getTime(last'.req.now) < getTime(last.now) + last.cbCookie[1].maxAge[2] )
      => /\ \E i \in 1..Len(last'.cookies) : SameIdentity(last'.cookies[i], last.cbCookie[1])
         /\ \E c \in idx' : SameIdentity(c, last.cbCookie[1]) ]_vars

\* a setCookie call that stored the cookie of a Set-Cookie string with no Path,
\* Secure, HttpOnly, Expires or Max-Age attribute
AcceptedPlain ==
  /\ last.op = "setCookie" /\ last.input = "string"
  /\ last.error = NoError /\ last.cbErr = NoError /\ last.cbCookie # NoCookie
  /\ last.given[1].path = Null /\ ~last.given[1].secure /\ ~last.given[1].httpOnly
  /\ last.given[1].expires = PosInf /\ last.given[1].maxAge = Null

\* C35: when setCookie stores the cookie of a Set-Cookie string with no Path,
\* Secure, HttpOnly, Expires or Max-Age attribute (with or without a Domain
\* attribute), the getCookies for the same URL that follows it, with the
\* default options, returns a cookie with that key and value
C35_ReadYourWrites ==
  [][ ( /\ AcceptedPlain
        /\ last' # last /\ last'.op = "getCookies"
        /\ last'.context = last.context /\ last'.options = NoGetOptions )
      => \E i \in 1..Len(last'.cookies) :
           /\ last'.cookies[i].key = last.cbCookie[1].key
           /\ last'.cookies[i].value = last.cbCookie[1].value ]_vars

\* call j of setCookie is the next, after call i of setCookie, to have written
\* a cookie of the same domain, path and key into the store
NextWriter(i, j) ==
  /\ inFlight[i].method = "setCookie" /\ inFlight[j].method = "setCookie"
  /\ 0 < inFlight[i].written /\ inFlight[i].written < inFlight[j].written
  /\ SameIdentity(inFlight[i].cookie[1], inFlight[j].cookie[1])
  /\ \A k \in DOMAIN inFlight :
       (inFlight[k].method = "setCookie" /\ inFlight[k].written > inFlight[i].written
          /\ inFlight[k].written < inFlight[j].written)
       => ~SameIdentity(inFlight[k].cookie[1], inFlight[i].cookie[1])

\* the cookies the store holds at the identity of a cookie
StoredAt(cookie) == { c \in idx : SameIdentity(c, cookie) }

\* the store holds the cookie call j wrote (which a getCookies may have
\* touched), until a later call writes there
Survives(j) ==
  (\A k \in DOMAIN inFlight :
      (inFlight[k].written > inFlight[j].written) =>
         ~SameIdentity(inFlight[k].cookie[1], inFlight[j].cookie[1]))
  => { WithoutAccess(c) : c \in StoredAt(inFlight[j].cookie[1]) }
       = {WithoutAccess(inFlight[j].cookie[1])}

\* C36 as the spec states it: of two setCookie calls on an asynchronous store
\* that write the same domain, path and key, however the store's completions
\* interleave, the second to write goes through updateCookie and its cookie,
\* the only one the store then holds there, has the creation and the
\* creationIndex of the cookie written first
C36_SecondWriterUpdates ==
  \A i, j \in DOMAIN inFlight :
    NextWriter(i, j) =>
      /\ Survives(j)
      /\ inFlight[j].wrote = "updateCookie"
      /\ inFlight[j].cookie[1].creation = inFlight[i].cookie[1].creation
      /\ inFlight[j].cookie[1].creationIndex = inFlight[i].cookie[1].creationIndex

\* the setCookie calls that had written at the identity of call j's cookie
\* when the store answered call j's findCookie
WrittenBefore(j) ==
  { k \in DOMAIN inFlight :
      /\ inFlight[k].method = "setCookie"
      /\ 0 < inFlight[k].written /\ inFlight[k].written <= inFlight[j].sawWrites
      /\ SameIdentity(inFlight[k].cookie[1], inFlight[j].cookie[1]) }

\* C36, amended: the store ends with one cookie there, that of the second
\* writer; when the store answered the second writer's findCookie after the
\* first writer's write, the second goes through updateCookie and its cookie
\* has the creation and creationIndex of the first; when the store answered
\* it before the first writer's write and nothing had been written there,
\* the second writer goes through putCookie as well and its cookie has its own
\* creation and creationIndex
C36_SecondWriterAfterFind ==
  \A i, j \in DOMAIN inFlight :
    NextWriter(i, j) =>
      /\ Survives(j)
      /\ IF inFlight[j].sawWrites >= inFlight[i].written
         THEN /\ inFlight[j].wrote = "updateCookie"
              /\ inFlight[j].cookie[1].creation = inFlight[i].cookie[1].creation
              /\ inFlight[j].cookie[1].creationIndex = inFlight[i].cookie[1].creationIndex
         ELSE WrittenBefore(j) = {} =>
                /\ inFlight[j].wrote = "putCookie"
                /\ inFlight[j].cookie[1].creation = inFlight[j].now
                /\ inFlight[j].cookie[1].creationIndex # inFlight[i].cookie[1].creationIndex

\* two setCookie calls in flight together, the second made a second after the
\* first and answered by findCookie after the first has written: it updates
C36_Witness ==
  /\ Len(inFlight) = 2 /\ NextWriter(1, 2)
  /\ inFlight[2].sawWrites = 1 /\ inFlight[2].wrote = "updateCookie"
  /\ inFlight[1].now = Date(0) /\ inFlight[2].now = Date(1)
  /\ inFlight[2].cookie[1].creation = Date(0)
  /\ idx = {inFlight[2].cookie[1]}

\* C37: on a store that invokes each of its callbacks once, every call of
\* setCookie, getCookies, getCookieString, getSetCookieStrings, serialize and
\* deserialize invokes its callback in the end, and once: never twice, and
\* not at all only while it waits for the store
C37_CompletesOnce ==
  /\ [](\A i \in DOMAIN inFlight :
          /\ inFlight[i].completions <= 1
          /\ inFlight[i].stage = "done" => inFlight[i].completions = 1)
  /\ \A i \in 1..MaxInFlight :
       (i \in DOMAIN inFlight) ~> (i \in DOMAIN inFlight /\ inFlight[i].stage = "done")

\* the stored cookies that the last getCookies left no cookie for
RemovedByGet ==
  { c \in last.store0 : findCookie(idx, c.domain, c.path, c.key) = NoCookie }

\* C38: getCookies adds no cookie to the store and changes no field of a
\* stored cookie but lastAccessed, of the cookies it returns; the cookies it
\* has removed passed the host, path, secure and httpOnly filters and have
\* expiryTime() <= now; with options.expire false it removes none and returns
\* the expired cookies
C38_GetFrame ==
  IsGet =>
    /\ \A c \in idx :
         \/ c \in last.store0
         \/ /\ c \in Range(last.cookies)
            /\ \E c0 \in last.store0 : WithoutAccess(c0) = WithoutAccess(c)
    /\ \A c \in RemovedByGet : InScope(c, last.req) /\ ExpiredAtRequest(c)
    /\ last.options.expire = False3 =>
         /\ RemovedByGet = {}
         /\ \A c \in Range(last.found) :
              InScope(c, last.req) =>
                \E i \in 1..Len(last.cookies) : SameIdentity(last.cookies[i], c)

\* a get with options.expire false that returned an expired cookie and left it
\* in the store, a second after a get removed another
C38_Witness ==
  /\ IsGet /\ last.options.expire = False3
  /\ \E i \in 1..Len(last.cookies) :
       /\ ExpiredAtRequest(last.cookies[i])
       /\ last.cookies[i] \in idx
       /\ last.cookies[i].lastAccessed = Date(1)

\* C39: an error of the store's findCookie, putCookie or updateCookie during a
\* setCookie is what the callback of setCookie receives, with no cookie, also
\* when options.ignoreError is set
C39_StoreErrorVerbatim ==
  \A i \in DOMAIN inFlight :
    (inFlight[i].method = "setCookie" /\ inFlight[i].storeErr # NoError) =>
      /\ inFlight[i].stage = "done" /\ inFlight[i].completions = 1
      /\ inFlight[i].cbErr = inFlight[i].storeErr
      /\ inFlight[i].cbResult = NoCookie

\* a setCookie with ignoreError whose updateCookie failed
C39_Witness ==
  \E i \in DOMAIN inFlight :
    /\ inFlight[i].method = "setCookie" /\ inFlight[i].options.ignoreError
    /\ inFlight[i].wrote = "updateCookie" /\ inFlight[i].storeErr = StoreError
    /\ inFlight[i].cbErr = StoreError

\* the policy failures of setCookie that come after its parse
ScopeErrors == {PublicSuffixError, DomainMismatchError, HttpOnlyError, OldHttpOnlyError}

\* the fields setCookie assigns on the cookie it is given
AssignedBySet ==
  {"domain", "hostOnly", "path", "pathIsDefault", "creation", "creationIndex", "lastAccessed"}

\* C40: a setCookie that is given a Cookie record and fails with a policy error
\* (public suffix, domain mismatch, httpOnly from a non-HTTP API, on the set or
\* on the replacement) leaves the record's domain, hostOnly, path,
\* pathIsDefault, creation, creationIndex and lastAccessed as they were
C40_RecordUnchanged ==
  (IsSet /\ last.input = "record" /\ last.error \in ScopeErrors) =>
    \A f \in AssignedBySet : last.cookie[1][f] = last.given[1][f]
=======================================================================
